---- MODULE Spec2Model ----
(***************************************************************************)
(* Model of the SatNOGS two-axis gimbal controller (class Gimbal with its  *)
(* EEPROM mirror NV).                                                      *)
(*                                                                         *)
(* Representation of the C++ values:                                       *)
(*   angles (float, degrees)      integers in tenths of a degree           *)
(*   pulse widths (uint16_t, us)  integers 0..65535                        *)
(*   scales (float, us/degree)    integers in thousandths of a us/degree,  *)
(*                                with the IEEE values +inf, -inf and NaN  *)
(*                                as PosInf, NegInf and NaN                *)
(*   millis() (uint32_t)          the two's-complement reading of the      *)
(*                                counter (v - 2^32 when v >= 2^31), so    *)
(*                                that addition modulo 2^32 is integer     *)
(*                                addition over the modelled range and the *)
(*                                unsigned order is ULess                  *)
(***************************************************************************)
EXTENDS Integers, Sequences, FiniteSets, TLC

VARIABLES
    store,          \* EEPROM contents at EEBASE (the persisted NV record)
    nv,             \* RAM mirror of the record (class NV public fields)
    gimbal_found,   \* whether the PWM controller answered on the I2C bus
    sensor_found,   \* Sensor::connected()
    motor,          \* MotorInfo motor[NMOTORS]
    init_step,      \* calibration step counter (uint8_t)
    best_azmotor,   \* designated azimuth motor (uint8_t)
    last_update,    \* millis() of the last moveToAzEl that passed the gate
    prevfast_az, prevfast_el,   \* reading of the previous acting tick
    prevstop_az, prevstop_el,   \* reading of the previous settled tick
    isCalibrating,  \* public flag read by loop()
    now,            \* millis()
    az_sensor, el_sensor,       \* Sensor's cached reading
    pc,             \* position inside overrideValue("G_Save"), "idle" outside
    last,           \* the last operation and the collaborator calls it made
    saved,          \* in-memory calibration at the last saveCalibration()
    bootStore,      \* EEPROM contents found by the last construction
    entries,        \* number of operator entries handled since power-up
    probe,          \* arguments and result of a function applied on its own;
                    \* the level of the OE pin at the last status report
    commanded       \* the motors commanded since construction

vars == << store, nv, gimbal_found, sensor_found, motor, init_step,
           best_azmotor, last_update, prevfast_az, prevfast_el, prevstop_az,
           prevstop_el, isCalibrating, now, az_sensor, el_sensor, pc, last,
           saved, bootStore, entries, probe, commanded >>

(***************************************************************************)
(* Program constants.                                                      *)
(***************************************************************************)
NMOTORS == 2
UPD_PERIOD == 500
\* MAX_SETTLE = 0.5 degrees, in tenths of a degree
MAX_SETTLE == 5
N_INIT_STEPS == 4
\* CAL_FRAC = 0.333, in thousandths
CAL_FRAC == 333
MAGIC == 1515890085
\* sanity bound 50 us/degree, in thousandths
MAX_SCALE == 50000
\* construction value -1000 degrees of prevfast_* and prevstop_*
SENTINEL == -10000
G_HOME_AZ == 0
G_HOME_EL == 450
\* millis() when setup() returns: its two delay(1000)
SETUP_DELAY == 2000

(***************************************************************************)
(* Machine arithmetic.                                                     *)
(***************************************************************************)
Abs(x) == IF x < 0 THEN -x ELSE x

\* C division of integers / truncation of a quotient toward zero
TruncDiv(a, b) ==
    IF (a >= 0) = (b > 0) THEN Abs(a) \div Abs(b) ELSE -(Abs(a) \div Abs(b))

U16(x) == x % 65536
U8(x) == x % 256
\* conversion of an int to int16_t (two's complement wrap)
I16(x) == LET u == x % 65536 IN IF u >= 32768 THEN u - 65536 ELSE u

\* IEEE special values of a float scale
PosInf == 10^9
NegInf == -(10^9)
NaN == 2 * 10^9
IsFinite(f) == f \notin {PosInf, NegInf, NaN}

\* float division of a pulse amount (thousandths of a us) by an angle
\* (tenths of a degree), in thousandths of a us per degree
FDiv(usMilli, ang) ==
    IF ang = 0
    THEN IF usMilli = 0 THEN NaN ELSE IF usMilli > 0 THEN PosInf ELSE NegInf
    ELSE TruncDiv(usMilli * 10, ang)

\* fabs(a) < fabs(b): false when either is NaN
FAbsLess(a, b) ==
    /\ a # NaN
    /\ b # NaN
    /\ IF IsFinite(a)
       THEN IF IsFinite(b) THEN Abs(a) < Abs(b) ELSE TRUE
       ELSE FALSE

\* a > bound for a float a and a finite bound: false for NaN
FGreater(a, bound) ==
    /\ a # NaN
    /\ a # NegInf
    /\ (a = PosInf \/ a > bound)

\* conversion of a real value to uint16_t, the value given truncated toward
\* zero; a value outside 0..65535 is undefined behaviour: the builds either
\* wrap it or saturate it
F2U16(x) ==
    IF x >= 0 /\ x <= 65535 THEN {x}
    ELSE {U16(x), IF x < 0 THEN 0 ELSE 65535}

\* unsigned 32-bit a < b on two's-complement readings
ULess(a, b) == IF (a >= 0) = (b >= 0) THEN a < b ELSE a >= 0

(***************************************************************************)
(* Gimbal::azDist                                                          *)
(***************************************************************************)
\* azDist without the branch that wraps a difference below -180
azDistOneSided(from, to) ==
    LET _d == to - from
    IN  IF _d > 1800 THEN _d - 3600 ELSE _d

azDist(from, to) ==
    LET _d == to - from
    IN  IF _d < -1800 THEN _d + 3600
        ELSE IF _d > 1800 THEN _d - 3600
        ELSE _d

(***************************************************************************)
(* class NV: the record kept in EEPROM and its RAM mirror.  The fields of  *)
(* the sensor (BNO055cal, mag_decl) are not used by Gimbal and are left    *)
(* out.                                                                    *)
(***************************************************************************)
ZeroRecord ==
    [ magic |-> 0, mot0min |-> 0, mot0max |-> 0, mot1min |-> 0, mot1max |-> 0,
      m0_azscale |-> 0, m0_elscale |-> 0, m1_azscale |-> 0, m1_elscale |-> 0,
      best_az_motor |-> 0, init_step |-> 0 ]

\* NV::get() without the write back of the zeroed record
NVgetNoWriteBack(st) ==
    IF st.magic # MAGIC
    THEN [ nv |-> [ZeroRecord EXCEPT !.magic = MAGIC],
           store |-> st,
           writes |-> 0 ]
    ELSE [ nv |-> st, store |-> st, writes |-> 0 ]

\* NV::get(): the mirror and the EEPROM afterwards, and the EEPROM writes made
NVget(st) ==
    IF st.magic # MAGIC
    THEN [ nv |-> [ZeroRecord EXCEPT !.magic = MAGIC],
           store |-> [ZeroRecord EXCEPT !.magic = MAGIC],
           writes |-> 1 ]
    ELSE [ nv |-> st, store |-> st, writes |-> 0 ]

\* NV::put(): the EEPROM contents after writing the mirror
NVput(n) == n

(***************************************************************************)
(* Gimbal::setMotorPosition                                                *)
(***************************************************************************)
\* the MotorInfo after a command that is not ignored
ClampedMotor(mip, newpos) ==
    LET atmin == newpos <= mip.min
        np1 == IF atmin THEN mip.min ELSE newpos
        atmax == np1 >= mip.max
        np2 == IF atmax THEN mip.max ELSE np1
    IN  [mip EXCEPT !.atmin = atmin, !.atmax = atmax,
                    !.del_pos = I16(np2 - mip.pos), !.pos = np2]

\* the early return of setMotorPosition without the test of gimbal_found
IgnoredByIndex(found, motn) == motn >= NMOTORS

\* whether setMotorPosition returns without doing anything
Ignored(found, motn) == motn >= NMOTORS \/ ~found

\* motor[] after setMotorPosition(motn, newpos)
setMotorPosition(mot, found, motn, newpos) ==
    IF Ignored(found, motn) THEN mot
    ELSE [mot EXCEPT ![motn] = ClampedMotor(mot[motn], newpos)]

\* the 12-bit tick count handed to pwm->setPWM: pos / US_PER_BIT with
\* US_PER_BIT = 1e6 / SERVO_FREQ / 4096
PwmTicks(pos) == (pos * 4096) \div 20000

\* the calls to pwm->setPWM made by setMotorPosition(motn, newpos), each with
\* the request that caused it
Forwarded(mot, found, motn, newpos) ==
    IF Ignored(found, motn) THEN << >>
    ELSE << [motn |-> motn, req |-> newpos,
             ticks |-> PwmTicks(ClampedMotor(mot[motn], newpos).pos)] >>

(***************************************************************************)
(* Gimbal::saveCalibration and Gimbal::installCalibration                  *)
(***************************************************************************)
\* saveCalibration() without the copy of init_step into the mirror
SavedRecordNoStep(n, mot, best, step) ==
    [n EXCEPT !.best_az_motor = best,
              !.m0_azscale = mot[0].az_scale, !.m0_elscale = mot[0].el_scale,
              !.m1_azscale = mot[1].az_scale, !.m1_elscale = mot[1].el_scale]

\* the mirror after saveCalibration() copied the calibration into it
SavedRecord(n, mot, best, step) ==
    [n EXCEPT !.best_az_motor = best,
              !.m0_azscale = mot[0].az_scale, !.m0_elscale = mot[0].el_scale,
              !.m1_azscale = mot[1].az_scale, !.m1_elscale = mot[1].el_scale,
              !.init_step = step]

\* the in-memory calibration: what saveCalibration stores and
\* installCalibration loads
CalOf(mot, best, step) ==
    [ best_azmotor |-> best, init_step |-> step,
      m0_azscale |-> mot[0].az_scale, m0_elscale |-> mot[0].el_scale,
      m1_azscale |-> mot[1].az_scale, m1_elscale |-> mot[1].el_scale ]

\* the index !best_azmotor
NotBest(best) == IF best = 0 THEN 1 ELSE 0

\* the sanity check of installCalibration on the loaded record n; oob is the
\* value read from motor[best_azmotor] when the index is out of bounds
RequestsNewCalibration(n, oob) ==
    LET best == n.best_az_motor
        azs == IF best = 0 THEN n.m0_azscale
               ELSE IF best = 1 THEN n.m1_azscale
               ELSE oob
        els == IF NotBest(best) = 0 THEN n.m0_elscale ELSE n.m1_elscale
    IN  \/ FGreater(azs, MAX_SCALE)
        \/ FGreater(els, MAX_SCALE)
        \/ n.init_step # 4
        \/ best < 0
        \/ best > 1

\* init_step taken from the record without the sanity check
InstalledStepUnchecked(n, oob) == n.init_step

\* init_step after installCalibration
InstalledStep(n, oob) ==
    IF RequestsNewCalibration(n, oob) THEN 0 ELSE n.init_step

(***************************************************************************)
(* Gimbal::Gimbal: the state after construction from EEPROM contents st.   *)
(* del_pos is not initialised by the constructor: dp is what the           *)
(* allocation held.                                                        *)
(***************************************************************************)
Constructed(st, dp, oob) ==
    LET g1 == NVget(st)
        g2 == NVget(g1.store)
        n == g2.nv
    IN  [ store |-> g2.store,
          nv |-> n,
          writes |-> g1.writes + g2.writes,
          motor |->
            [ i \in 0..1 |->
                [ az_scale |-> IF i = 0 THEN n.m0_azscale ELSE n.m1_azscale,
                  el_scale |-> IF i = 0 THEN n.m0_elscale ELSE n.m1_elscale,
                  min |-> IF i = 0 THEN g1.nv.mot0min ELSE g1.nv.mot1min,
                  max |-> IF i = 0 THEN g1.nv.mot0max ELSE g1.nv.mot1max,
                  pos |-> 0, del_pos |-> dp[i],
                  atmin |-> FALSE, atmax |-> FALSE ] ],
          init_step |-> InstalledStep(n, oob),
          best_azmotor |-> n.best_az_motor ]

(***************************************************************************)
(* The methods of Gimbal as functions of the object's state g: a record of *)
(* the fields of Gimbal, of NV and the EEPROM, of millis() and the         *)
(* sensor's cache, together with the collaborator calls made so far by the *)
(* running operation (cmds, reads, writes) and the branches its calls of   *)
(* moveToAzEl took (outcome).  A method yields the set of states it can    *)
(* end in.                                                                 *)
(***************************************************************************)
\* setMotorPosition(motn, newpos) acting on the other motor
CommandSwapped(g, motn, newpos) ==
    [g EXCEPT !.motor = setMotorPosition(g.motor, g.found, 1 - motn, newpos),
              !.cmds = g.cmds \o Forwarded(g.motor, g.found, 1 - motn, newpos)]

\* setMotorPosition(motn, newpos) on g
Command(g, motn, newpos) ==
    [g EXCEPT !.motor = setMotorPosition(g.motor, g.found, motn, newpos),
              !.cmds = g.cmds \o Forwarded(g.motor, g.found, motn, newpos)]

\* delay(ms)
Delay(g, ms) == [g EXCEPT !.now = g.now + ms]

\* Gimbal::saveCalibration
saveCalibration(g) ==
    LET n == SavedRecord(g.nv, g.motor, g.best_azmotor, g.init_step)
    IN  [g EXCEPT !.nv = n, !.store = NVput(n), !.writes = g.writes + 1,
                  !.saved = CalOf(g.motor, g.best_azmotor, g.init_step)]

\* uint16_t _range = max - min
Range(mip) == U16(mip.max - mip.min)

\* step 0 target: min + _range * (1 - CAL_FRAC) / 2, truncated
NearMin(mip) == mip.min + (Range(mip) * (1000 - CAL_FRAC)) \div 2000

\* an excursion over the whole range
ExcursionWhole(mip) == mip.pos + Range(mip)

\* steps 1 and 2 target: pos + _range * CAL_FRAC, truncated
Excursion(mip) == mip.pos + (Range(mip) * CAL_FRAC) \div 1000

\* the scales computed from an excursion of mip seen as the move from the
\* previous stable reading to (az_s, el_s)
MeasuredAz(mip, g, az_s) ==
    FDiv(Range(mip) * CAL_FRAC, azDist(g.prevstop_az, az_s))
MeasuredEl(mip, g, el_s) ==
    FDiv(Range(mip) * CAL_FRAC, el_s - g.prevstop_el)

\* best_azmotor = fabs(az_scale0) < fabs(az_scale1) ? 0 : 1
BestAzMotor(s0, s1) == IF FAbsLess(s0, s1) THEN 0 ELSE 1

\* the body of one case of the switch in calibrate, init_step already
\* incremented
CalibrateCase(g, step, az_s, el_s) ==
    CASE step = 0 ->
           { Delay(Command(Delay(Command(g, 0, p0), 100), 1, p1), 500) :
               p0 \in F2U16(NearMin(g.motor[0])),
               p1 \in F2U16(NearMin(g.motor[1])) }
      [] step = 1 ->
           { Delay(Command(g, 0, p0), 500) :
               p0 \in F2U16(Excursion(g.motor[0])) }
      [] step = 2 ->
           LET g1 == [g EXCEPT
                        !.motor[0].az_scale = MeasuredAz(g.motor[0], g, az_s),
                        !.motor[0].el_scale = MeasuredEl(g.motor[0], g, el_s)]
           IN  { Delay(Command(g1, 1, p1), 500) :
                   p1 \in F2U16(Excursion(g1.motor[1])) }
      [] step = 3 ->
           LET g1 == [g EXCEPT
                        !.motor[1].az_scale = MeasuredAz(g.motor[1], g, az_s),
                        !.motor[1].el_scale = MeasuredEl(g.motor[1], g, el_s)]
               g2 == [g1 EXCEPT !.best_azmotor =
                        BestAzMotor(g1.motor[0].az_scale,
                                    g1.motor[1].az_scale)]
           IN  { [saveCalibration(g2) EXCEPT !.isCalibrating = FALSE] }
      [] OTHER -> { g }

\* calibrate without the assignment to isCalibrating
calibrateUnflagged(g, az_s, el_s) ==
    CalibrateCase([g EXCEPT !.init_step = U8(g.init_step + 1),
                            !.outcome = Append(g.outcome, "calibrate")],
                  g.init_step, az_s, el_s)

\* calibrate with isCalibrating left set when the last step is done
calibrateLatched(g, az_s, el_s) ==
    { [x EXCEPT !.isCalibrating = TRUE] :
        x \in CalibrateCase([g EXCEPT !.init_step = U8(g.init_step + 1),
                                      !.outcome = Append(g.outcome,
                                                         "calibrate")],
                            g.init_step, az_s, el_s) }

\* Gimbal::calibrate
calibrate(g, az_s, el_s) ==
    CalibrateCase([g EXCEPT !.isCalibrating = TRUE,
                            !.init_step = U8(g.init_step + 1),
                            !.outcome = Append(g.outcome, "calibrate")],
                  g.init_step, az_s, el_s)

\* calibrated() one step early
calibratedEarly(g) == g.init_step >= N_INIT_STEPS - 1

\* calibrated() with the comparison off by one
calibratedLate(g) == g.init_step > N_INIT_STEPS

\* Gimbal::calibrated
calibrated(g) == g.init_step >= N_INIT_STEPS

\* the 10% rule applied to the magnitudes of the two scales
SmallChangeOfMagnitude(new, old) ==
    /\ IsFinite(old)
    /\ old # 0
    /\ Abs(Abs(new) - Abs(old)) * 10 < Abs(old)

\* fabs((new - old) / old) < MAX_CHANGE with MAX_CHANGE = 0.1, new finite
SmallChange(new, old) ==
    /\ IsFinite(old)
    /\ old # 0
    /\ Abs(new - old) * 10 < Abs(old)

\* reCal with a threshold of 20 degrees
RecalibratedFrom20(scale, del_pos, move) ==
    IF Abs(move) >= 200 /\ SmallChange(FDiv(del_pos * 1000, move), scale)
    THEN FDiv(del_pos * 1000, move)
    ELSE scale

\* the scale reCal adopts for a motor that moved del_pos us while the
\* reading moved by move (MIN_ANGLE = 30 degrees)
Recalibrated(scale, del_pos, move) ==
    IF Abs(move) >= 300 /\ SmallChange(FDiv(del_pos * 1000, move), scale)
    THEN FDiv(del_pos * 1000, move)
    ELSE scale

\* Gimbal::reCal
reCal(g, az_s, el_s) ==
    LET az == g.best_azmotor
        el == NotBest(g.best_azmotor)
        g1 == [g EXCEPT !.motor[az].az_scale =
                 Recalibrated(g.motor[az].az_scale, g.motor[az].del_pos,
                              azDist(g.prevstop_az, az_s))]
    IN  [g1 EXCEPT !.motor[el].el_scale =
           Recalibrated(g1.motor[el].el_scale, g1.motor[el].del_pos,
                        el_s - g1.prevstop_el)]

\* pos + err * scale converted to uint16_t: the real sum truncated toward
\* zero, or any outcome of the undefined conversion of inf or NaN
Corrected(pos, err, scale) ==
    IF ~IsFinite(scale) THEN {0, 65535}
    ELSE LET low == Abs(err) * (Abs(scale) % 10000)
             mag == Abs(err) * (Abs(scale) \div 10000) + low \div 10000
             frac == IF low % 10000 # 0 THEN 1 ELSE 0
             neg == (err < 0) # (scale < 0)
             sum == IF ~neg THEN pos + mag
                    ELSE IF pos - mag - frac >= 0 THEN pos - mag - frac
                    ELSE pos - mag
         IN  F2U16(sum)

\* min + tenths/10 * (max - min) converted to uint16_t (int subtraction)
SwingTo(mip, tenths) ==
    LET num == mip.min * 10 + tenths * (mip.max - mip.min)
    IN  F2U16(TruncDiv(num, 10))

\* seekTarget with the swing away from a limit made for the elevation
\* motor as well
seekTargetElSwing(g, az_t, el_t, az_s, el_s) ==
    LET _az_err == azDist(az_s, az_t)
        _el_err == el_t - el_s
        az == g.best_azmotor
        el == NotBest(g.best_azmotor)
        g1 == [reCal(g, az_s, el_s) EXCEPT !.outcome = Append(g.outcome, "seek")]
        azmip == g1.motor[az]
        elmip == g1.motor[el]
        azReq == IF azmip.atmin THEN SwingTo(azmip, 9)
                 ELSE IF azmip.atmax THEN SwingTo(azmip, 1)
                 ELSE Corrected(azmip.pos, _az_err, azmip.az_scale)
        elReq == IF elmip.atmin THEN SwingTo(elmip, 9)
                 ELSE IF elmip.atmax THEN SwingTo(elmip, 1)
                 ELSE Corrected(elmip.pos, _el_err, elmip.el_scale)
    IN  UNION { { Command(Command(g1, az, pa), el, pe) : pe \in elReq } :
                pa \in azReq }

\* Gimbal::seekTarget
seekTarget(g, az_t, el_t, az_s, el_s) ==
    LET _az_err == azDist(az_s, az_t)
        _el_err == el_t - el_s
        az == g.best_azmotor
        el == NotBest(g.best_azmotor)
        g1 == [reCal(g, az_s, el_s) EXCEPT !.outcome = Append(g.outcome, "seek")]
        azmip == g1.motor[az]
        azReq == IF azmip.atmin THEN SwingTo(azmip, 9)
                 ELSE IF azmip.atmax THEN SwingTo(azmip, 1)
                 ELSE Corrected(azmip.pos, _az_err, azmip.az_scale)
    IN  UNION { { Command(Command(g1, az, pa), el, pe) :
                    pe \in Corrected(g1.motor[el].pos, _el_err,
                                     g1.motor[el].el_scale) } :
                pa \in azReq }

\* whether moveToAzEl returns at the rate gate
RateLimited(_now, lastUpdate) == ULess(_now, lastUpdate + UPD_PERIOD)

\* whether a reading is rejected as out of domain
OutOfDomain(_az_s, _el_s) ==
    _az_s < 0 \/ _az_s > 3600 \/ _el_s < 0 \/ _el_s > 900

\* the test for stopped motion made against the last stable reading
SettledSinceStop(g, _az_s, _el_s) ==
    /\ Abs(azDist(g.prevstop_az, _az_s)) < MAX_SETTLE
    /\ Abs(_el_s - g.prevstop_el) < MAX_SETTLE

\* the test for stopped motion made on the azimuth alone
SettledInAzimuth(g, _az_s, _el_s) ==
    Abs(azDist(g.prevfast_az, _az_s)) < MAX_SETTLE

\* whether motion has stopped
Settled(g, _az_s, _el_s) ==
    /\ Abs(azDist(g.prevfast_az, _az_s)) < MAX_SETTLE
    /\ Abs(_el_s - g.prevfast_el) < MAX_SETTLE

\* Gimbal::moveToAzEl, rd being what sensor->readAzElT() obtains
moveToAzEl(g, az_t, el_t, rd) ==
    IF RateLimited(g.now, g.last_update)
    THEN { [g EXCEPT !.outcome = Append(g.outcome, "rate_limited")] }
    ELSE LET g1 == [g EXCEPT !.last_update = g.now,
                             !.az_sensor = rd.az, !.el_sensor = rd.el,
                             !.reads = g.reads + 1]
         IN  IF OutOfDomain(rd.az, rd.el)
             THEN { [g1 EXCEPT !.outcome = Append(g.outcome, "rejected")] }
             ELSE IF Settled(g1, rd.az, rd.el)
             THEN { [g2 EXCEPT !.prevstop_az = rd.az, !.prevstop_el = rd.el,
                               !.prevfast_az = rd.az, !.prevfast_el = rd.el] :
                    g2 \in IF calibrated(g1)
                           THEN seekTarget(g1, az_t, el_t, rd.az, rd.el)
                           ELSE calibrate(g1, rd.az, rd.el) }
             ELSE { [g1 EXCEPT !.prevfast_az = rd.az, !.prevfast_el = rd.el,
                               !.outcome = Append(g.outcome, "unsettled")] }

(***************************************************************************)
(* Gimbal::sendNewValues: the G_Status line; oe is digitalRead of the OE   *)
(* pin of the PCA9685.                                                     *)
(***************************************************************************)
\* the status with the limit flags looked at before the OE pin
sendNewValuesLimitFirst(g, oe) ==
    IF ~g.found THEN "Not found!"
    ELSE IF g.motor[0].atmin THEN "Servo 1 at Min!"
    ELSE IF g.motor[0].atmax THEN "Servo 1 at Max!"
    ELSE IF g.motor[1].atmin THEN "Servo 2 at Min!"
    ELSE IF g.motor[1].atmax THEN "Servo 2 at Max!"
    ELSE IF oe THEN "Gimbal fault!"
    ELSE IF ~calibrated(g) THEN "Uncalibrated!"
    ELSE "Ok+"

\* the status sendNewValues prints
sendNewValues(g, oe) ==
    IF ~g.found THEN "Not found!"
    ELSE IF oe THEN "Gimbal fault!"
    ELSE IF g.motor[0].atmin THEN "Servo 1 at Min!"
    ELSE IF g.motor[0].atmax THEN "Servo 1 at Max!"
    ELSE IF g.motor[1].atmin THEN "Servo 2 at Min!"
    ELSE IF g.motor[1].atmax THEN "Servo 2 at Max!"
    ELSE IF ~calibrated(g) THEN "Uncalibrated!"
    ELSE "Ok+"

(***************************************************************************)
(* The state machine.                                                      *)
(***************************************************************************)
\* the object's state at the start of an operation
Self ==
    [ store |-> store, nv |-> nv, found |-> gimbal_found, motor |-> motor,
      init_step |-> init_step, best_azmotor |-> best_azmotor,
      last_update |-> last_update,
      prevfast_az |-> prevfast_az, prevfast_el |-> prevfast_el,
      prevstop_az |-> prevstop_az, prevstop_el |-> prevstop_el,
      isCalibrating |-> isCalibrating, now |-> now,
      az_sensor |-> az_sensor, el_sensor |-> el_sensor, saved |-> saved,
      cmds |-> << >>, reads |-> 0, writes |-> 0, outcome |-> << >> ]

\* the state at the end of operation opname, which ended in g
Becomes(g, opname) ==
    /\ store' = g.store
    /\ nv' = g.nv
    /\ motor' = g.motor
    /\ init_step' = g.init_step
    /\ best_azmotor' = g.best_azmotor
    /\ last_update' = g.last_update
    /\ prevfast_az' = g.prevfast_az
    /\ prevfast_el' = g.prevfast_el
    /\ prevstop_az' = g.prevstop_az
    /\ prevstop_el' = g.prevstop_el
    /\ isCalibrating' = g.isCalibrating
    /\ now' = g.now
    /\ az_sensor' = g.az_sensor
    /\ el_sensor' = g.el_sensor
    /\ saved' = g.saved
    /\ last' = [ op |-> opname, outcome |-> g.outcome, cmds |-> g.cmds,
                 reads |-> g.reads, writes |-> g.writes ]
    /\ commanded' = commanded \cup { g.cmds[k].motn : k \in DOMAIN g.cmds }
    /\ UNCHANGED << gimbal_found, sensor_found, bootStore, probe >>

NoCal == [ best_azmotor |-> 0, init_step |-> 0,
           m0_azscale |-> 0, m0_elscale |-> 0,
           m1_azscale |-> 0, m1_elscale |-> 0 ]

\* the state after setup() built the objects from EEPROM contents st
Booted(st, dp, oob) ==
    LET c == Constructed(st, dp, oob)
    IN  /\ store = c.store
        /\ nv = c.nv
        /\ motor = c.motor
        /\ init_step = c.init_step
        /\ best_azmotor = c.best_azmotor
        /\ last_update = 0
        /\ prevfast_az = SENTINEL
        /\ prevfast_el = SENTINEL
        /\ prevstop_az = SENTINEL
        /\ prevstop_el = SENTINEL
        /\ isCalibrating = FALSE
        /\ now = SETUP_DELAY
        /\ az_sensor = 0
        /\ el_sensor = 0
        /\ pc = "idle"
        /\ last = [ op |-> "Gimbal", outcome |-> << >>, cmds |-> << >>,
                    reads |-> 0, writes |-> c.writes ]
        /\ saved = NoCal
        /\ bootStore = st
        /\ entries = 0
        /\ commanded = {}

\* a call of moveToAzEl(az_t, el_t) from outside overrideValue
MoveToAzEl(targets, readings) ==
    /\ pc = "idle"
    /\ \E t \in targets, rd \in readings :
         \E g \in moveToAzEl(Self, t.az, t.el, rd) :
            /\ Becomes(g, "moveToAzEl")
            /\ UNCHANGED << pc, entries >>

\* overrideValue("G_Mot1Pos" / "G_Mot2Pos", value), v being atoi(value)
OverridePos(values, most) ==
    /\ pc = "idle"
    /\ entries < most
    /\ \E motn \in 0..1, v \in values :
         /\ Becomes(IF gimbal_found THEN Command(Self, motn, U16(v)) ELSE Self,
                    "G_MotPos")
         /\ entries' = entries + 1
         /\ pc' = pc

\* the mirror with the limit of a motor replaced
WithLimit(n, motn, which, v) ==
    IF motn = 0
    THEN IF which = "min" THEN [n EXCEPT !.mot0min = v]
                          ELSE [n EXCEPT !.mot0max = v]
    ELSE IF which = "min" THEN [n EXCEPT !.mot1min = v]
                          ELSE [n EXCEPT !.mot1max = v]

\* the object after a limit edit with the actuator present
LimitEdited(g, motn, which, v) ==
    LET n == WithLimit(g.nv, motn, which, U16(v))
    IN  [g EXCEPT !.motor[motn] =
                     IF which = "min" THEN [@ EXCEPT !.min = U16(v)]
                                      ELSE [@ EXCEPT !.max = U16(v)],
                  !.nv = n, !.store = NVput(n), !.writes = g.writes + 1]

\* overrideValue("G_Mot1Min" / "G_Mot1Max" / "G_Mot2Min" / "G_Mot2Max", value)
OverrideLimit(values, most) ==
    /\ pc = "idle"
    /\ entries < most
    /\ \E motn \in 0..1, which \in {"min", "max"}, v \in values :
         /\ Becomes(IF gimbal_found THEN LimitEdited(Self, motn, which, v)
                    ELSE Self,
                    "G_MotLimit")
         /\ entries' = entries + 1
         /\ pc' = pc

\* resetInitStep that leaves init_step as it is
resetInitStepKept(g) == g

\* Gimbal::resetInitStep
resetInitStep(g) == [g EXCEPT !.init_step = 0]

\* overrideValue("G_Save", value) up to the test of its while loop
SaveBegin(most) ==
    /\ pc = "idle"
    /\ entries < most
    /\ entries' = entries + 1
    /\ IF gimbal_found /\ sensor_found
       THEN /\ Becomes(resetInitStep(Self), "G_Save")
            /\ pc' = "save_loop"
       ELSE /\ Becomes(Self, "G_Save")
            /\ pc' = pc

\* one iteration of the while loop of G_Save
SaveIterate(readings, horizon) ==
    /\ pc = "save_loop"
    /\ ~calibrated(Self)
    /\ now <= horizon
    /\ \E rd \in readings :
         \E g \in moveToAzEl(Self, init_step * 50, init_step * 50, rd) :
            /\ Becomes(Delay(g, 200), "G_Save")
            /\ UNCHANGED << pc, entries >>

\* G_Save after its loop: the two moves to the home position
SaveFinish(readings) ==
    /\ pc = "save_loop"
    /\ calibrated(Self)
    /\ \E rd1 \in readings, rd2 \in readings :
         \E g1 \in moveToAzEl(Delay(Self, 1000), G_HOME_AZ, G_HOME_EL, rd1) :
            \E g2 \in moveToAzEl(Delay(g1, 200), G_HOME_AZ, G_HOME_EL, rd2) :
               /\ Becomes(g2, "G_Save")
               /\ pc' = "idle"
               /\ entries' = entries

\* no operation: what last holds while time passes
Quiet == [ op |-> "none", outcome |-> << >>, cmds |-> << >>,
           reads |-> 0, writes |-> 0 ]

\* time passing between the operations
Elapse(dts, horizon) ==
    /\ pc = "idle"
    /\ \E dt \in dts :
         /\ now + dt <= horizon
         /\ now' = now + dt
    /\ last' = Quiet
    /\ UNCHANGED << store, nv, gimbal_found, sensor_found, motor, init_step,
                    best_azmotor, last_update, prevfast_az, prevfast_el,
                    prevstop_az, prevstop_el, isCalibrating, az_sensor,
                    el_sensor, pc, saved, bootStore, entries, probe,
                    commanded >>

\* a long time without any operation: millis() comes within lead ms of its
\* rollover
LongIdle(lead) ==
    /\ pc = "idle"
    /\ now >= 0
    /\ now' = -lead
    /\ last' = Quiet
    /\ UNCHANGED << store, nv, gimbal_found, sensor_found, motor, init_step,
                    best_azmotor, last_update, prevfast_az, prevfast_el,
                    prevstop_az, prevstop_el, isCalibrating, az_sensor,
                    el_sensor, pc, saved, bootStore, entries, probe,
                    commanded >>

\* a call of sendNewValues by the web page: the status goes into last, the
\* level of the OE pin into probe
SendNewValues ==
    /\ pc = "idle"
    /\ \E oe \in BOOLEAN :
         /\ last' = [ op |-> "sendNewValues",
                      outcome |-> << sendNewValues(Self, oe) >>,
                      cmds |-> << >>, reads |-> 0, writes |-> 0 ]
         /\ probe' = << oe >>
    /\ UNCHANGED << store, nv, gimbal_found, sensor_found, motor, init_step,
                    best_azmotor, last_update, prevfast_az, prevfast_el,
                    prevstop_az, prevstop_el, isCalibrating, now, az_sensor,
                    el_sensor, pc, saved, bootStore, entries, commanded >>

\* ESP.restart(): setup() runs again on the EEPROM as it is
Restart(garbage, oobs) ==
    /\ pc = "idle"
    /\ \E dp \in garbage, oob \in oobs :
         LET c == Constructed(store, dp, oob)
         IN  /\ store' = c.store
             /\ nv' = c.nv
             /\ motor' = c.motor
             /\ init_step' = c.init_step
             /\ best_azmotor' = c.best_azmotor
             /\ last' = [ op |-> "Gimbal", outcome |-> << >>, cmds |-> << >>,
                          reads |-> 0, writes |-> c.writes ]
    /\ last_update' = 0
    /\ prevfast_az' = SENTINEL
    /\ prevfast_el' = SENTINEL
    /\ prevstop_az' = SENTINEL
    /\ prevstop_el' = SENTINEL
    /\ isCalibrating' = FALSE
    /\ now' = SETUP_DELAY
    /\ az_sensor' = 0
    /\ el_sensor' = 0
    /\ pc' = "idle"
    /\ bootStore' = store
    /\ entries' = 0
    /\ commanded' = {}
    /\ UNCHANGED << gimbal_found, sensor_found, saved, probe >>

(***************************************************************************)
(* The environment of the model: EEPROM contents at power-up, sensor       *)
(* readings, targets, operator entries and the clock.                      *)
(***************************************************************************)
\* the clock is not advanced beyond MaxNow ms
MaxNow == 3000
\* the loop of G_Save is not followed beyond MaxSaveNow ms
MaxSaveNow == 5000
\* the operator makes at most MaxEntries entries between two power-ups
MaxEntries == 2
\* an EEPROM that was never written
FreshStore ==
    [ magic |-> 0, mot0min |-> 65535, mot0max |-> 65535, mot1min |-> 65535,
      mot1max |-> 65535, m0_azscale |-> NaN, m0_elscale |-> NaN,
      m1_azscale |-> NaN, m1_elscale |-> NaN, best_az_motor |-> 255,
      init_step |-> 255 ]

\* limits entered, never calibrated
LimitsStore ==
    [ZeroRecord EXCEPT !.magic = MAGIC, !.mot0min = 1000, !.mot0max = 2000,
                       !.mot1min = 1000, !.mot1max = 2000]

\* a completed calibration: motor 0 is the azimuth motor
CalibratedStore ==
    [LimitsStore EXCEPT !.m0_azscale = 8325, !.m0_elscale = PosInf,
                        !.m1_azscale = 66600, !.m1_elscale = -11100,
                        !.best_az_motor = 0, !.init_step = 4]

\* what the allocation can hold where del_pos lies
Garbage == { [i \in 0..1 |-> v] : v \in {0, 400} }
NoGarbage == { [i \in 0..1 |-> 0] }
\* what an out-of-bounds read of motor[] can yield
OobReads == {0, PosInf}

(***************************************************************************)
(* Spec: the operator's entries (positions, limits, Save) interleaved with *)
(* control ticks, on a controller that starts configured.                  *)
(***************************************************************************)
Readings ==
    { [az |-> 100, el |-> 200], [az |-> 500, el |-> 600],
      [az |-> 100, el |-> -50] }
Targets == { [az |-> 3500, el |-> 400] }
PosValues == { 1500, -1 }
LimitValues == { 2500 }

Init ==
    /\ gimbal_found \in BOOLEAN
    /\ sensor_found \in BOOLEAN
    /\ gimbal_found \/ sensor_found
    /\ \E st \in {LimitsStore, CalibratedStore},
          dp \in NoGarbage, oob \in OobReads :
         Booted(st, dp, oob)
    /\ probe = << >>

Next ==
    \/ MoveToAzEl(Targets, Readings)
    \/ OverridePos(PosValues, MaxEntries)
    \/ OverrideLimit(LimitValues, MaxEntries)
    \/ SaveBegin(MaxEntries)
    \/ SaveIterate(Readings, MaxSaveNow)
    \/ SaveFinish(Readings)
    \/ Elapse({UPD_PERIOD}, MaxNow)

Spec == Init /\ [][Next]_vars

(***************************************************************************)
(* SpecBoot: power-up from every kind of EEPROM contents, calibration by   *)
(* control ticks, and restarts.                                            *)
(***************************************************************************)
\* the clock is not advanced beyond MaxBootNow ms
MaxBootNow == 5200

\* calibrated records that the sanity check is meant to refuse or accept
NegScaleStore == [CalibratedStore EXCEPT !.m0_azscale = -60000]
BigScaleStore == [CalibratedStore EXCEPT !.m0_azscale = 60000]
BigElScaleStore == [CalibratedStore EXCEPT !.m1_elscale = 50001]
EdgeScaleStore == [CalibratedStore EXCEPT !.m0_azscale = 50000]
BadIndexStore == [CalibratedStore EXCEPT !.best_az_motor = 2]
StaleStepStore == [CalibratedStore EXCEPT !.init_step = 3]
OtherAxisStore ==
    [CalibratedStore EXCEPT !.best_az_motor = 1, !.m1_azscale = -8325,
                            !.m0_elscale = NegInf]
\* a record whose marker was damaged
DamagedStore == [CalibratedStore EXCEPT !.magic = MAGIC - 1]

BootStores ==
    { FreshStore, LimitsStore, CalibratedStore, NegScaleStore, BigScaleStore,
      BigElScaleStore, EdgeScaleStore, BadIndexStore, StaleStepStore,
      OtherAxisStore, DamagedStore }

BootReadings ==
    { [az |-> 100, el |-> 200], [az |-> 500, el |-> 600],
      [az |-> 550, el |-> 650] }
BootTargets == { [az |-> 500, el |-> 600] }

InitBoot ==
    /\ gimbal_found \in BOOLEAN
    /\ sensor_found = TRUE
    /\ \E st \in BootStores, dp \in Garbage, oob \in OobReads :
         Booted(st, dp, oob)
    /\ probe = << >>

NextBoot ==
    \/ MoveToAzEl(BootTargets, BootReadings)
    \/ Elapse({UPD_PERIOD}, MaxBootNow)
    \/ Restart(Garbage, {0})

SpecBoot == InitBoot /\ [][NextBoot]_vars

(***************************************************************************)
(* SpecClock: the rate gate of moveToAzEl against the millisecond counter, *)
(* its rollover included.                                                  *)
(***************************************************************************)
\* the clock is not advanced beyond MaxClockNow ms
MaxClockNow == 3400
\* how far before its rollover a long idle period leaves millis()
RolloverLead == 400

ClockReadings == { [az |-> 100, el |-> 200], [az |-> 100, el |-> -50] }
ClockTargets == { [az |-> 500, el |-> 600] }

InitClock ==
    /\ gimbal_found = TRUE
    /\ sensor_found = TRUE
    /\ \E st \in {LimitsStore, CalibratedStore},
          dp \in NoGarbage, oob \in OobReads :
         Booted(st, dp, oob)
    /\ probe = << >>

NextClock ==
    \/ MoveToAzEl(ClockTargets, ClockReadings)
    \/ Elapse({200, UPD_PERIOD}, MaxClockNow)
    \/ LongIdle(RolloverLead)

SpecClock == InitClock /\ [][NextClock]_vars

(***************************************************************************)
(* SpecAzDist: azDist applied to a pair of azimuths in [0, 360).           *)
(***************************************************************************)
Azimuths == { 0, 5, 100, 1795, 1800, 1805, 3500, 3595 }

InitAzDist ==
    /\ gimbal_found = TRUE
    /\ sensor_found = TRUE
    /\ Booted(LimitsStore, [i \in 0..1 |-> 0], 0)
    /\ \E a \in Azimuths, b \in Azimuths :
         probe = [ from |-> a, to |-> b, applied |-> FALSE, d |-> 0 ]

ApplyAzDist ==
    /\ ~probe.applied
    /\ probe' = [probe EXCEPT !.applied = TRUE,
                              !.d = azDist(probe.from, probe.to)]
    /\ UNCHANGED << store, nv, gimbal_found, sensor_found, motor, init_step,
                    best_azmotor, last_update, prevfast_az, prevfast_el,
                    prevstop_az, prevstop_el, isCalibrating, now, az_sensor,
                    el_sensor, pc, last, saved, bootStore, entries,
                    commanded >>

NextAzDist == ApplyAzDist

SpecAzDist == InitAzDist /\ [][NextAzDist]_vars

(***************************************************************************)
(* SpecTrack: tracking ticks with the hardware present; the readings move  *)
(* by 20 and by 35 degrees in azimuth, by 35 degrees in elevation and by   *)
(* 0.2 degrees across north, and the operator can put a motor at mid range *)
(* or against either limit.                                                *)
(***************************************************************************)
\* the clock is not advanced beyond MaxTrackNow ms
MaxTrackNow == 4000
\* the operator makes at most MaxTrackEntries entries
MaxTrackEntries == 1

TrackReadings ==
    { [az |-> 1, el |-> 200], [az |-> 351, el |-> 200],
      [az |-> 201, el |-> 200], [az |-> 1, el |-> 550],
      [az |-> 3599, el |-> 200] }
TrackTargets ==
    { [az |-> 351, el |-> 200], [az |-> 201, el |-> 200],
      [az |-> 1, el |-> 550] }
TrackPosValues == { 1500, 500, 2500 }

InitTrack ==
    /\ gimbal_found = TRUE
    /\ sensor_found = TRUE
    /\ \E st \in {LimitsStore, CalibratedStore}, dp \in NoGarbage :
         Booted(st, dp, 0)
    /\ probe = << >>

NextTrack ==
    \/ MoveToAzEl(TrackTargets, TrackReadings)
    \/ OverridePos(TrackPosValues, MaxTrackEntries)
    \/ Elapse({UPD_PERIOD}, MaxTrackNow)

SpecTrack == InitTrack /\ [][NextTrack]_vars

(***************************************************************************)
(* SpecLoop: the sketch as loop() schedules it.  The commands of the       *)
(* serial port and the entries of the web page are served only while       *)
(* isCalibrating is false; a Save that has begun runs on inside            *)
(* overrideValue.                                                          *)
(***************************************************************************)
\* the clock is not advanced beyond MaxLoopNow ms
MaxLoopNow == 4500
\* the loop of G_Save is not followed beyond MaxLoopSaveNow ms
MaxLoopSaveNow == 6000
\* the operator makes at most MaxLoopEntries entries
MaxLoopEntries == 1

LoopStores == { LimitsStore, CalibratedStore, BigScaleStore }
LoopReadings ==
    { [az |-> 1, el |-> 200], [az |-> 351, el |-> 200],
      [az |-> 1, el |-> 550] }
LoopTargets == { [az |-> 351, el |-> 200], [az |-> 1, el |-> 550] }
LoopLimitValues == { 900 }

InitLoop ==
    /\ gimbal_found = TRUE
    /\ sensor_found = TRUE
    /\ \E st \in LoopStores, dp \in NoGarbage : Booted(st, dp, 0)
    /\ probe = << >>

\* the test loop() makes before it serves anything
LoopServes == ~isCalibrating

\* loop() -> easycomm_process() -> moveToAzEl on a positioning command
Easycomm(targets, readings) ==
    /\ LoopServes
    /\ MoveToAzEl(targets, readings)

\* loop() -> checkEthernet() -> overrideValue on an entry of a limit
WebLimit(values, most) ==
    /\ LoopServes
    /\ OverrideLimit(values, most)

\* loop() -> checkEthernet() -> overrideValue on the Save button
WebSave(most) ==
    /\ LoopServes
    /\ SaveBegin(most)

NextLoop ==
    \/ Easycomm(LoopTargets, LoopReadings)
    \/ WebLimit(LoopLimitValues, MaxLoopEntries)
    \/ WebSave(MaxLoopEntries)
    \/ SaveIterate(LoopReadings, MaxLoopSaveNow)
    \/ SaveFinish(LoopReadings)
    \/ Elapse({UPD_PERIOD}, MaxLoopNow)

SpecLoop == InitLoop /\ [][NextLoop]_vars

(***************************************************************************)
(* SpecStatus: the status line of the web page, with the actuator present  *)
(* or absent, calibrated or not, and the motors put at mid range or        *)
(* against either limit by the operator.                                   *)
(***************************************************************************)
\* the operator makes at most MaxStatusEntries entries
MaxStatusEntries == 2

StatusPosValues == { 1500, 500, 2500 }

InitStatus ==
    /\ gimbal_found \in BOOLEAN
    /\ sensor_found = TRUE
    /\ \E st \in {LimitsStore, CalibratedStore}, dp \in NoGarbage :
         Booted(st, dp, 0)
    /\ probe = << >>

NextStatus ==
    \/ OverridePos(StatusPosValues, MaxStatusEntries)
    \/ SendNewValues

SpecStatus == InitStatus /\ [][NextStatus]_vars

(***************************************************************************)
(* SpecPlant: the control loop closed over an idealised gimbal.  Motor 0   *)
(* turns the azimuth only and motor 1 the elevation only, each linearly in *)
(* its pulse width, and the gimbal is at rest whenever the sensor is read. *)
(* The stored calibration holds either the scales of the gimbal or an      *)
(* azimuth scale that is 2.5 times or half the gimbal's.                   *)
(***************************************************************************)
\* the clock is not advanced beyond MaxPlantNow ms
MaxPlantNow == 9000

\* the gimbal's scales in thousandths of a us per degree
PlantAzScale == 8325
PlantElScale == -12500
\* what the sensor reads, in tenths of a degree, with a motor at 1000 us
PlantAzAt1000 == 1000
PlantElAt1000 == 850
\* the pulse width a servo rests at until it is first commanded
PlantRest == 1500

PlantStore ==
    [CalibratedStore EXCEPT !.m0_azscale = PlantAzScale, !.m0_elscale = PosInf,
                            !.m1_azscale = PosInf,
                            !.m1_elscale = PlantElScale]
SteepStore == [PlantStore EXCEPT !.m0_azscale = 20812]
ShallowStore == [PlantStore EXCEPT !.m0_azscale = 4162]

\* the target the station keeps asking for
PlantTarget == [az |-> 2000, el |-> 450]
PlantTargets == { PlantTarget }

\* the pulse width motor i is at
PlantPos(i) == IF i \in commanded THEN motor[i].pos ELSE PlantRest

\* what the sensor reads with the gimbal at rest where the motors put it
PlantAz ==
    (PlantAzAt1000 + TruncDiv((PlantPos(0) - 1000) * 10000, PlantAzScale))
        % 3600
PlantEl ==
    PlantElAt1000 + TruncDiv((PlantPos(1) - 1000) * 10000, PlantElScale)
PlantSensed == { [az |-> PlantAz, el |-> PlantEl] }

InitPlant ==
    /\ gimbal_found = TRUE
    /\ sensor_found = TRUE
    /\ \E st \in {PlantStore, SteepStore, ShallowStore}, dp \in NoGarbage :
         Booted(st, dp, 0)
    /\ probe = << >>

NextPlant ==
    \/ MoveToAzEl(PlantTargets, PlantSensed)
    \/ Elapse({200, UPD_PERIOD}, MaxPlantNow)

SpecPlant == InitPlant /\ [][NextPlant]_vars

(***************************************************************************)
(* SpecCal: the calibration sequence run by control ticks alone, for       *)
(* several pairs of limits: the usual 1000..2000, a wide and a full range, *)
(* a range of one microsecond and an empty range.                          *)
(***************************************************************************)
\* the clock is not advanced beyond MaxCalNow ms
MaxCalNow == 5000

CalLimits ==
    { [min |-> 1000, max |-> 2000], [min |-> 600, max |-> 2400],
      [min |-> 0, max |-> 65535], [min |-> 1000, max |-> 1001],
      [min |-> 1500, max |-> 1500] }

\* limits entered, never calibrated
CalStores ==
    { [ZeroRecord EXCEPT !.magic = MAGIC,
                         !.mot0min = l0.min, !.mot0max = l0.max,
                         !.mot1min = l1.min, !.mot1max = l1.max] :
        l0 \in CalLimits, l1 \in CalLimits }

CalReadings == { [az |-> 100, el |-> 200], [az |-> 500, el |-> 600] }
CalTargets == { [az |-> 500, el |-> 600] }

InitCal ==
    /\ gimbal_found = TRUE
    /\ sensor_found = TRUE
    /\ \E st \in CalStores, dp \in NoGarbage : Booted(st, dp, 0)
    /\ probe = << >>

NextCal ==
    \/ MoveToAzEl(CalTargets, CalReadings)
    \/ Elapse({UPD_PERIOD}, MaxCalNow)

SpecCal == InitCal /\ [][NextCal]_vars

(***************************************************************************)
(* SpecParse: the serial front end applied to one command line.  A line is *)
(* the sequence of its characters (one-character strings) without the      *)
(* terminator; probe holds the line and what processing it did.            *)
(***************************************************************************)
\* buffer[i - 1] of a terminated string: the terminator beyond its end
CharAt(s, i) == IF i <= Len(s) THEN s[i] ELSE ""

\* Easycomm::isNumber: no character of the string is a letter
isNumber(input) ==
    LET Letters == { "a", "b", "c", "d", "e", "f", "g", "h", "i", "j", "k",
                     "l", "m", "n", "o", "p", "q", "r", "s", "t", "u", "v",
                     "w", "x", "y", "z", "A", "B", "C", "D", "E", "F", "G",
                     "H", "I", "J", "K", "L", "M", "N", "O", "P", "Q", "R",
                     "S", "T", "U", "V", "W", "X", "Y", "Z" }
    IN  \A i \in 1..Len(input) : input[i] \notin Letters

\* the decimal digits, the digit of value v at place v + 1
Digits == << "0", "1", "2", "3", "4", "5", "6", "7", "8", "9" >>

\* atof() of a string without letters, in tenths: optional sign, digits,
\* optional point and digits; what cannot be converted ends the number, and
\* nothing converted gives 0
atof(s) ==
    LET IsDigit(c) == \E k \in 1..10 : Digits[k] = c
        Val(c) == (CHOOSE k \in 1..10 : Digits[k] = c) - 1
        signed == s # << >> /\ Head(s) \in { "-", "+" }
        from == IF signed THEN 2 ELSE 1
        \* index after the run of digits starting at i
        RunEnd[i \in 1..(Len(s) + 1)] ==
            IF i <= Len(s) /\ IsDigit(s[i]) THEN RunEnd[i + 1] ELSE i
        stop == RunEnd[from]
        IntVal[j \in from..stop] ==
            IF j = from THEN 0 ELSE IntVal[j - 1] * 10 + Val(s[j - 1])
        tenth == IF CharAt(s, stop) = "." /\ IsDigit(CharAt(s, stop + 1))
                 THEN Val(s[stop + 1]) ELSE 0
        mag == IntVal[stop] * 10 + tenth
    IN  IF signed /\ Head(s) = "-" THEN 0 - mag ELSE mag

\* strtok(s, " ") on the not yet consumed text: no token (NULL) when only
\* delimiters are left, else the token and the text after its delimiter
strtok(s) ==
    LET Skip[i \in 1..(Len(s) + 1)] ==
            IF i <= Len(s) /\ s[i] = " " THEN Skip[i + 1] ELSE i
        End[i \in 1..(Len(s) + 1)] ==
            IF i <= Len(s) /\ s[i] # " " THEN End[i + 1] ELSE i
        b == Skip[1]
    IN  IF b > Len(s)
        THEN [ null |-> TRUE, token |-> << >>, rest |-> << >> ]
        ELSE [ null |-> FALSE, token |-> SubSeq(s, b, End[b] - 1),
               rest |-> SubSeq(s, End[b] + 1, Len(s)) ]

\* token + 2
Skip2(token) == SubSeq(token, 3, Len(token))

\* what a read through the null pointer can give where it does not fault
NullReads == { << >>, << "E", "L" >> }

\* what the uninitialised locals az_input and el_input can hold
StackGarbage == { 0, 2700, NaN }

\* Easycomm::readAzEl with *az_input and *el_input as found: the possible
\* results, with the values left in *az_input and *el_input
readAzEl(az_input, el_input, buf) ==
    LET first == strtok(buf)
        az == IF isNumber(Skip2(first.token))
              THEN atof(Skip2(first.token)) ELSE az_input
        second == strtok(first.rest)
        seen == IF second.null
                THEN { [ fault |-> TRUE, token |-> << >> ] } \cup
                     { [ fault |-> FALSE, token |-> t ] : t \in NullReads }
                ELSE { [ fault |-> FALSE, token |-> second.token ] }
    IN  { IF k.fault
          THEN [ fault |-> TRUE, ret |-> FALSE, az |-> az, el |-> el_input ]
          ELSE IF /\ CharAt(k.token, 1) = "E"
                  /\ CharAt(k.token, 2) = "L"
                  /\ isNumber(Skip2(k.token))
               THEN [ fault |-> FALSE, ret |-> TRUE, az |-> az,
                      el |-> atof(Skip2(k.token)) ]
               ELSE [ fault |-> FALSE, ret |-> FALSE, az |-> az,
                      el |-> el_input ] : k \in seen }

\* Easycomm::easycomm_process on a terminated line: whether readAzEl was
\* called and what it returned, and the moveToAzEl call made, if any
ProcessLine(buf) ==
    LET Is(i, c) == CharAt(buf, i) = c
        idle == [ parsed |-> FALSE, fault |-> FALSE, ret |-> FALSE,
                  moved |-> FALSE, az |-> 0, el |-> 0 ]
    IN  IF Is(1, "A") /\ Is(2, "Z") /\ Is(3, " ") /\ Is(4, "E") /\ Is(5, "L")
        THEN { idle }
        ELSE IF Is(1, "A") /\ Is(2, "Z")
        THEN IF ~Is(3, " ")
             THEN { [ parsed |-> TRUE, fault |-> r.fault, ret |-> r.ret,
                      moved |-> r.ret, az |-> r.az, el |-> r.el ]
                      : r \in UNION { readAzEl(a, e, buf)
                                        : a \in StackGarbage,
                                          e \in StackGarbage } }
             ELSE { idle }
        ELSE IF Is(1, "P") /\ Is(2, "A") /\ Is(3, "R") /\ Is(4, "K")
        THEN { [idle EXCEPT !.moved = TRUE] }
        ELSE { idle }

\* the text after AZ and after EL in the lines sent
Fields == { << >>, << "1", "0" >>, << "1", "0", ".", "5" >>, << "-", "5" >>,
            << "x" >>, << "1", "x" >>, << "1", "-", "2" >>, << "." >> }

\* what follows the azimuth field up to the elevation field
Tags == { << " ", "E", "L" >>, << " ", " ", "E", "L" >>, << " ", "E" >>,
          << " ", "X", "L" >>, << " " >> }

\* the command lines sent over the serial port
CommandLines ==
    { << "A", "Z" >> \o a : a \in Fields } \cup
    { << "A", "Z" >> \o a \o t \o e : a \in Fields, t \in Tags, e \in Fields }
      \cup
    { << "A", "Z", " ", "E", "L" >>, << "A", "Z", " ", "1", "0" >>,
      << "P", "A", "R", "K" >>, << "V", "E" >>, << >> }

InitParse ==
    /\ gimbal_found = TRUE
    /\ sensor_found = TRUE
    /\ Booted(LimitsStore, [i \in 0..1 |-> 0], 0)
    /\ \E b \in CommandLines :
         probe = [ buffer |-> b, done |-> FALSE, parsed |-> FALSE,
                   fault |-> FALSE, ret |-> FALSE, moved |-> FALSE,
                   az |-> 0, el |-> 0 ]

\* the terminator of the line arrives
Terminator ==
    /\ ~probe.done
    /\ \E r \in ProcessLine(probe.buffer) :
         probe' = [ buffer |-> probe.buffer, done |-> TRUE,
                    parsed |-> r.parsed, fault |-> r.fault, ret |-> r.ret,
                    moved |-> r.moved, az |-> r.az, el |-> r.el ]
    /\ UNCHANGED << store, nv, gimbal_found, sensor_found, motor, init_step,
                    best_azmotor, last_update, prevfast_az, prevfast_el,
                    prevstop_az, prevstop_el, isCalibrating, now, az_sensor,
                    el_sensor, pc, last, saved, bootStore, entries,
                    commanded >>

NextParse == Terminator

SpecParse == InitParse /\ [][NextParse]_vars

(***************************************************************************)
(* SpecSeek: tracking one target from a stored calibration of 2.5 us per   *)
(* degree of azimuth, with the azimuth motor's limits 1000, 5 or 1 us      *)
(* apart; probe holds the target the remote control keeps sending.         *)
(***************************************************************************)
\* the clock is not advanced beyond MaxSeekNow ms
MaxSeekNow == 4000
\* the operator makes at most MaxSeekEntries entries
MaxSeekEntries == 1

SeekLimits == { [min |-> 1000, max |-> 2000], [min |-> 1000, max |-> 1005],
                [min |-> 1000, max |-> 1001] }
SeekStores ==
    { [CalibratedStore EXCEPT !.m0_azscale = 2500, !.mot0min = l.min,
                              !.mot0max = l.max] : l \in SeekLimits }
SeekPoints == { [az |-> 1, el |-> 200], [az |-> 351, el |-> 200] }
SeekPosValues == { 1500, 2500 }

InitSeek ==
    /\ gimbal_found = TRUE
    /\ sensor_found = TRUE
    /\ \E st \in SeekStores, dp \in NoGarbage : Booted(st, dp, 0)
    /\ \E t \in SeekPoints : probe = [ target |-> t ]

\* easycomm_process with the positioning command for the target
Track == MoveToAzEl({ probe.target }, SeekPoints)

NextSeek ==
    \/ Track
    \/ OverridePos(SeekPosValues, MaxSeekEntries)
    \/ Elapse({UPD_PERIOD}, MaxSeekNow)

SpecSeek == InitSeek /\ [][NextSeek]_vars

(***************************************************************************)
(* SpecStep: the step counter under ticks, operator entries, Save and      *)
(* restarts, from stored records whose step is 0, 3, 4 or 5.               *)
(***************************************************************************)
\* the clock is not advanced beyond MaxStepNow ms
MaxStepNow == 4000
\* the loop of G_Save is not followed beyond MaxStepSaveNow ms
MaxStepSaveNow == 6000
\* the operator makes at most MaxStepEntries entries between two power-ups
MaxStepEntries == 1

\* a calibrated record with a step beyond the last one
LateStepStore == [CalibratedStore EXCEPT !.init_step = 5]
StepStores == { LimitsStore, CalibratedStore, StaleStepStore, LateStepStore }

StepReadings == { [az |-> 100, el |-> 200] }

InitStep ==
    /\ gimbal_found = TRUE
    /\ sensor_found = TRUE
    /\ \E st \in StepStores, dp \in NoGarbage : Booted(st, dp, 0)
    /\ probe = << >>

NextStep ==
    \/ MoveToAzEl(CalTargets, StepReadings)
    \/ OverridePos(PosValues, MaxStepEntries)
    \/ OverrideLimit(LimitValues, MaxStepEntries)
    \/ SaveBegin(MaxStepEntries)
    \/ SaveIterate(StepReadings, MaxStepSaveNow)
    \/ SaveFinish(StepReadings)
    \/ Elapse({UPD_PERIOD}, MaxStepNow)
    \/ Restart(NoGarbage, {0})

SpecStep == InitStep /\ [][NextStep]_vars

(***************************************************************************)
(* Properties.                                                             *)
(***************************************************************************)
\* the step just taken was one call of moveToAzEl (a control tick or one
\* iteration of the loop of G_Save)
OneCall == Len(last'.outcome) = 1

\* C1: every motor that has been commanded since construction has
\* min <= pos <= max, whatever ticks, position overrides and limit edits
\* were made.
C1_PulseWithinLimits ==
    \A i \in commanded :
        motor[i].min <= motor[i].pos /\ motor[i].pos <= motor[i].max

\* C2: every command that setMotorPosition does not ignore clamps the
\* request to [min, max]: above max gives pos = max, atmax and not atmin;
\* below min gives pos = min, atmin and not atmax; strictly inside gives
\* neither flag; and del_pos is the new pos minus the previous pos.
C2_ClampOf(c) ==
    LET before == motor[c.motn]
        after == motor'[c.motn]
    IN  /\ c.req > before.max =>
              after.pos = before.max /\ after.atmax /\ ~after.atmin
        /\ c.req < before.min =>
              after.pos = before.min /\ after.atmin /\ ~after.atmax
        /\ (before.min < c.req /\ c.req < before.max) =>
              after.pos = c.req /\ ~after.atmin /\ ~after.atmax
        /\ after.del_pos = after.pos - before.pos

C2_Clamping ==
    [][\A k \in DOMAIN last'.cmds : C2_ClampOf(last'.cmds[k])]_vars

\* C3: for azimuths a, b in [0, 360) azDist(a, b) is congruent to b - a
\* modulo 360 and lies in (-180, 180]; azDist(350, 10) = 20,
\* azDist(10, 350) = -20, azDist(0, 180) = 180.
C3_Examples ==
    /\ (probe.from = 3500 /\ probe.to = 100) => probe.d = 200
    /\ (probe.from = 100 /\ probe.to = 3500) => probe.d = -200
    /\ (probe.from = 0 /\ probe.to = 1800) => probe.d = 1800

C3_AzDistHalfOpen ==
    probe.applied =>
        /\ (probe.d - (probe.to - probe.from)) % 3600 = 0
        /\ -1800 < probe.d
        /\ probe.d <= 1800
        /\ C3_Examples

\* C3 as amended: the result is congruent to b - a modulo 360 and lies in
\* the closed interval [-180, 180]; the three examples hold.
C3_AzDistClosed ==
    probe.applied =>
        /\ (probe.d - (probe.to - probe.from)) % 3600 = 0
        /\ -1800 <= probe.d
        /\ probe.d <= 1800
        /\ C3_Examples

C3_Witness == probe.applied /\ probe.from = 1800 /\ probe.to = 0

\* the call just made passed the gate, read an in-domain reading and found
\* the gimbal stopped
C4_SettledTick ==
    /\ last'.reads = 1
    /\ ~OutOfDomain(az_sensor', el_sensor')
    /\ Abs(azDist(prevfast_az, az_sensor')) < MAX_SETTLE
    /\ Abs(el_sensor' - prevfast_el) < MAX_SETTLE

\* C4: while uncalibrated each settled tick advances init_step by exactly
\* one, a rate-limited, rejected or unsettled tick leaves it unchanged, and
\* the settled tick taken at step 3 ends with init_step = 4, calibrated,
\* isCalibrating false and init_step = 4 in the stored record.
C4_StepAdvance ==
    [][OneCall =>
         /\ (C4_SettledTick /\ init_step < 4) => init_step' = init_step + 1
         /\ ~C4_SettledTick => init_step' = init_step
         /\ (C4_SettledTick /\ init_step = 3) =>
               /\ init_step' = 4
               /\ ~isCalibrating'
               /\ store'.init_step = 4]_vars

C4_Witness ==
    /\ entries > 0
    /\ init_step = 4
    /\ last.outcome = << "calibrate" >>
    /\ store.init_step = 4
    /\ ~isCalibrating

\* the step just taken is the reset made by overrideValue("G_Save")
C5_ResetStep == pc = "idle" /\ pc' = "save_loop"

\* C5: a calibrated controller stays calibrated under every tick,
\* recalibration, position override and limit edit; init_step goes down
\* only by the reset of G_Save, and then to 0.
C5_StaysCalibrated ==
    [][/\ (init_step = 4 /\ ~C5_ResetStep) => init_step' = 4
       /\ init_step' < init_step => (C5_ResetStep /\ init_step' = 0)]_vars

C5_Witness ==
    /\ init_step = 4
    /\ entries = 2
    /\ last.outcome = << "seek" >>
    /\ \E i \in 0..1 : motor[i].min # 1000 \/ motor[i].max # 2000

\* |a| <= |b| for two scales; false when either is NaN
C6_MagLeq(a, b) ==
    /\ a # NaN
    /\ b # NaN
    /\ IF IsFinite(b) THEN IsFinite(a) /\ Abs(a) <= Abs(b) ELSE TRUE

\* C6: when calibration step 3 has run, the azimuth motor is the motor
\* whose azimuth scale has the smaller magnitude, motor 0 when the reading
\* moved 40 degrees for it and 5 degrees for motor 1 over equal excursions,
\* and init_step = 4.
C6_SmallerScaleIsAzimuth ==
    (last.outcome = << "calibrate" >> /\ init_step = 4) =>
        /\ best_azmotor \in {0, 1}
        /\ C6_MagLeq(motor[best_azmotor].az_scale,
                     motor[NotBest(best_azmotor)].az_scale)
        /\ (motor[0].az_scale = 8325 /\ motor[1].az_scale = 66600) =>
              best_azmotor = 0

\* |f| > 50 us/degree for a stored scale
C7_TooBig(f) ==
    f = PosInf \/ f = NegInf \/ (IsFinite(f) /\ Abs(f) > MAX_SCALE)

\* C7: after construction from a record with a valid marker, init_step = 0
\* if the stored azimuth scale of the stored azimuth motor or the stored
\* elevation scale of the other motor has magnitude above 50, if the stored
\* step is not 4, or if the stored index is neither 0 nor 1.
C7_ImplausibleForcesStepZero ==
    LET n == bootStore
        azs == IF n.best_az_motor = 0 THEN n.m0_azscale ELSE n.m1_azscale
        els == IF n.best_az_motor = 0 THEN n.m1_elscale ELSE n.m0_elscale
    IN  (last.op = "Gimbal" /\ n.magic = MAGIC) =>
            /\ n.best_az_motor \notin {0, 1} => init_step = 0
            /\ n.init_step # 4 => init_step = 0
            /\ (n.best_az_motor \in {0, 1}
                  /\ (C7_TooBig(azs) \/ C7_TooBig(els))) => init_step = 0

\* the step just taken is a construction that follows a saveCalibration
C8_LoadAfterSave == last'.op = "Gimbal" /\ saved # NoCal

\* C8: construction after a saveCalibration reproduces the calibration that
\* was in memory at the save: axis index, step and the four scales.
C8_RoundTrip ==
    [][C8_LoadAfterSave =>
         CalOf(motor', best_azmotor', init_step') = saved]_vars

\* a saved scale above 50 us/degree
C8_Above(f) == f = PosInf \/ (IsFinite(f) /\ f > MAX_SCALE)

\* a saved scale of magnitude at most 50 us/degree
C8_Within(f) == IsFinite(f) /\ Abs(f) <= MAX_SCALE

\* C8 as amended: the axis index and the four scales are reproduced; the
\* step is reproduced when the saved azimuth scale of the azimuth motor and
\* the saved elevation scale of the other motor have magnitude at most 50,
\* and is 0 when one of the two is above 50.
C8_RoundTripChecked ==
    [][C8_LoadAfterSave =>
         LET azs == IF saved.best_azmotor = 0 THEN saved.m0_azscale
                    ELSE saved.m1_azscale
             els == IF saved.best_azmotor = 0 THEN saved.m1_elscale
                    ELSE saved.m0_elscale
         IN  /\ CalOf(motor', best_azmotor', saved.init_step) = saved
             /\ (C8_Within(azs) /\ C8_Within(els)) =>
                   init_step' = saved.init_step
             /\ (C8_Above(azs) \/ C8_Above(els)) => init_step' = 0]_vars

C8_Witness ==
    /\ last.op = "Gimbal"
    /\ saved # NoCal
    /\ init_step = 4
    /\ CalOf(motor, best_azmotor, init_step) = saved

\* C9: construction from an EEPROM without the marker leaves the all-zero
\* record with the marker in the mirror and in the EEPROM (written back) and
\* the controller uncalibrated; construction from an EEPROM with the marker
\* writes nothing.
C9_MissingRecord ==
    last.op = "Gimbal" =>
        IF bootStore.magic # MAGIC
        THEN /\ nv = [ZeroRecord EXCEPT !.magic = MAGIC]
             /\ store = nv
             /\ last.writes >= 1
             /\ init_step = 0
             /\ ~isCalibrating
        ELSE /\ last.writes = 0
             /\ store = bootStore

C9_Witness ==
    /\ last.op = "Gimbal"
    /\ bootStore.magic # MAGIC
    /\ bootStore.init_step = 4
    /\ init_step = 0

\* less than UPD_PERIOD ms have passed since the last call that passed the
\* gate
C10_TooSoon == now - last_update >= 0 /\ now - last_update < UPD_PERIOD

\* C10: a call of moveToAzEl made less than UPD_PERIOD after the last call
\* that passed the gate does nothing: no sensor refresh, no motor command,
\* no change of the controller.
C10_RateLimited ==
    [][(OneCall /\ last'.op = "moveToAzEl" /\ C10_TooSoon) =>
         /\ last'.reads = 0
         /\ last'.cmds = << >>
         /\ last'.writes = 0
         /\ UNCHANGED << store, nv, motor, init_step, best_azmotor,
                         last_update, prevfast_az, prevfast_el, prevstop_az,
                         prevstop_el, isCalibrating, now, az_sensor,
                         el_sensor >>]_vars

\* the fields of the controller other than the sensor's cache
Controller ==
    << store, nv, motor, init_step, best_azmotor, last_update, prevfast_az,
       prevfast_el, prevstop_az, prevstop_el, isCalibrating >>

\* the call just made was abandoned at the domain check
C11_Rejected == OneCall /\ last'.outcome = << "rejected" >>

\* C11: a tick whose refreshed reading is out of domain issues no motor
\* command and leaves the controller as it was: step, scales, motor
\* records, last-fast and last-stable readings and the time of the last
\* update, so that the next tick is as if the rejected tick had not been.
C11_RejectedTickChangesNothing ==
    [][C11_Rejected =>
         /\ last'.cmds = << >>
         /\ last'.writes = 0
         /\ Controller' = Controller]_vars

\* C12: a calibration step, a seek, a recalibration or an update of the
\* last-stable reading happens only on a tick whose reading is within
\* MAX_SETTLE, in circular azimuth distance and in elevation, of the
\* reading of the previous tick that passed the gate and the domain check;
\* on every other tick no motor is commanded and step, scales and
\* last-stable reading stay as they are.
C12_OnlyWhenSettled ==
    [][OneCall =>
         /\ (last'.reads = 1 /\ ~OutOfDomain(az_sensor', el_sensor')) =>
               (prevfast_az' = az_sensor' /\ prevfast_el' = el_sensor')
         /\ ~C4_SettledTick =>
               /\ last'.cmds = << >>
               /\ last'.outcome[1] \notin {"calibrate", "seek"}
               /\ init_step' = init_step
               /\ CalOf(motor', best_azmotor', init_step')
                    = CalOf(motor, best_azmotor, init_step)
               /\ motor' = motor
               /\ prevstop_az' = prevstop_az
               /\ prevstop_el' = prevstop_el]_vars

\* a tick that moved only in elevation and was therefore not acted on,
\* after a tick that was
C12_Witness ==
    /\ last.outcome = << "unsettled" >>
    /\ az_sensor = prevstop_az
    /\ el_sensor # prevstop_el
    /\ prevstop_az # SENTINEL

\* C13: in one invocation of moveToAzEl each motor is commanded at most
\* once, and the invocation runs one calibration step when step < 4 or the
\* seek when step = 4, never both.
C13_OneCommandPerMotor ==
    [][OneCall =>
         /\ \A j, k \in DOMAIN last'.cmds :
               last'.cmds[j].motn = last'.cmds[k].motn => j = k
         /\ last'.outcome[1] = "calibrate" => init_step < N_INIT_STEPS
         /\ last'.outcome[1] = "seek" => init_step = N_INIT_STEPS]_vars

C13_Witness ==
    /\ last.outcome = << "seek" >>
    /\ Len(last.cmds) = 2
    /\ last.cmds[1].motn # last.cmds[2].motn

\* the call just made ran seekTarget
C14_SeekTick == OneCall /\ last'.outcome = << "seek" >>

\* min + tenths/10 of the range of a motor
C14_Fraction(mip, tenths) ==
    TruncDiv(mip.min * 10 + tenths * (mip.max - mip.min), 10)

\* C14: a seek made while the azimuth motor is flagged atmax commands it to
\* min + 0.1 * (max - min) whatever the azimuth error, a seek made while it
\* is flagged atmin commands it to min + 0.9 * (max - min), and neither
\* leaves the motor against a limit.
C14_SwingAwayFromLimit ==
    [][C14_SeekTick =>
         LET mip == motor[best_azmotor]
             c == last'.cmds[1]
             after == motor'[best_azmotor]
         IN  /\ mip.atmax =>
                   (c.motn = best_azmotor /\ c.req = C14_Fraction(mip, 1))
             /\ mip.atmin =>
                   (c.motn = best_azmotor /\ c.req = C14_Fraction(mip, 9))
             /\ (mip.atmax \/ mip.atmin) =>
                   (mip.min < after.pos /\ after.pos < mip.max)]_vars

\* lastDelta / move in thousandths of a us per degree, move not 0
C15_Candidate(del_pos, move) == TruncDiv(del_pos * 10000, move)

\* the move is at least 30 degrees and the candidate is within 10% of scale
C15_Adopts(scale, del_pos, move) ==
    /\ Abs(move) >= 300
    /\ IsFinite(scale)
    /\ scale # 0
    /\ Abs(C15_Candidate(del_pos, move) - scale) * 10 < Abs(scale)

\* the scale after the rule of reCal
C15_Rule(scale, del_pos, move) ==
    IF C15_Adopts(scale, del_pos, move) THEN C15_Candidate(del_pos, move)
    ELSE scale

\* C15: on a settled tracking tick the azimuth scale of the azimuth motor
\* becomes lastDelta / azMove if and only if the azimuth moved at least 30
\* degrees since the last stable reading and the candidate is within 10% of
\* the scale; the elevation scale of the elevation motor follows the same
\* rule with its own lastDelta and the elevation move; no other scale
\* changes.
C15_RecalibrationGate ==
    [][C14_SeekTick =>
         LET az == best_azmotor
             el == 1 - best_azmotor
         IN  /\ motor'[az].az_scale =
                   C15_Rule(motor[az].az_scale, motor[az].del_pos,
                            azDist(prevstop_az, az_sensor'))
             /\ motor'[el].el_scale =
                   C15_Rule(motor[el].el_scale, motor[el].del_pos,
                            el_sensor' - prevstop_el)
             /\ motor'[az].el_scale = motor[az].el_scale
             /\ motor'[el].az_scale = motor[el].az_scale]_vars

\* a scale adopted after a move of 35 degrees
C15_Witness ==
    /\ last.outcome = << "seek" >>
    /\ bootStore = CalibratedStore
    /\ IsFinite(motor[0].az_scale)
    /\ motor[0].az_scale # bootStore.m0_azscale
    /\ motor[1].el_scale = bootStore.m1_elscale

\* what setMotorPosition writes in the record of a motor
C16_Commanded(mip) == << mip.pos, mip.del_pos, mip.atmin, mip.atmax >>

\* C16: with the actuator absent no step changes pos, del_pos, atmin or
\* atmax of either motor or forwards a pulse, be it a calibration step, a
\* seek or a position override.
C16_AbsentActuator ==
    [][~gimbal_found =>
         /\ last'.cmds = << >>
         /\ \A i \in 0..1 :
               C16_Commanded(motor'[i]) = C16_Commanded(motor[i])]_vars

\* a seek made, after an operator's entry, with the actuator absent
C16_Witness ==
    /\ ~gimbal_found
    /\ entries > 0
    /\ last.outcome = << "seek" >>
    /\ \A i \in 0..1 : motor[i].pos = 0

\* C17: in every state, the one after construction from a record with a
\* valid marker included, the index of the azimuth motor is 0 or 1 and the
\* elevation motor is the other one.
C17_AxisIndex ==
    /\ best_azmotor \in {0, 1}
    /\ NotBest(best_azmotor) \in {0, 1} \ {best_azmotor}

\* a scale that is a number other than 0
C18_Usable(f) == IsFinite(f) /\ f # 0

\* C18: whenever init_step = 4, reached by the four steps or by loading a
\* record, the azimuth scale of the azimuth motor and the elevation scale of
\* the other motor are defined and not 0.
C18_ControlScalesUsable ==
    (init_step = 4 /\ best_azmotor \in {0, 1}) =>
        /\ C18_Usable(motor[best_azmotor].az_scale)
        /\ C18_Usable(motor[1 - best_azmotor].el_scale)

\* the four scales in memory and the four in the EEPROM
C19_Scales ==
    << motor[0].az_scale, motor[0].el_scale, motor[1].az_scale,
       motor[1].el_scale, store.m0_azscale, store.m0_elscale,
       store.m1_azscale, store.m1_elscale >>

\* the call just made ran calibration step 2 or 3 on a reading that had
\* not changed, in azimuth or in elevation, since the last stable reading
C19_ZeroChange ==
    /\ OneCall
    /\ last'.outcome = << "calibrate" >>
    /\ init_step \in {2, 3}
    /\ (azDist(prevstop_az, az_sensor') = 0 \/ el_sensor' = prevstop_el)

\* C19: a calibration excursion with zero measured angular change is
\* treated as a failure: the step is retried or abandoned, no scale is
\* stored in memory or in the EEPROM from it, and the controller does not
\* become calibrated.
C19_ZeroChangeIsFailure ==
    [][C19_ZeroChange =>
         /\ init_step' <= init_step
         /\ C19_Scales' = C19_Scales]_vars

\* the step just taken is the return of overrideValue("G_Save") after its
\* loop and its two calls of moveToAzEl with the home position
C20_SaveReturns == pc = "save_loop" /\ pc' = "idle"

\* the step just taken is overrideValue("G_Save") without actuator or
\* without sensor
C20_SaveRefused ==
    last'.op = "G_Save" /\ ~(gimbal_found /\ sensor_found)

\* the pulse the seek toward the home position asks of the azimuth motor
C20_HomeRequests ==
    LET mip == motor[best_azmotor]
    IN  IF mip.atmin THEN SwingTo(mip, 9)
        ELSE IF mip.atmax THEN SwingTo(mip, 1)
        ELSE Corrected(mip.pos, azDist(az_sensor', G_HOME_AZ),
                       motor'[best_azmotor].az_scale)

\* C20: G_Save with actuator and sensor present resets init_step to 0 and
\* runs the calibration, so that on return init_step = 4, isCalibrating is
\* false and the calibration is in the EEPROM, and moveToAzEl has been
\* called with the home position after the calibration ended: the call
\* passes the rate gate and seeks toward (0, 45) when its reading is in
\* domain and settled.  Without actuator or without sensor G_Save leaves
\* init_step and the scales as they are.
C20_SaveCalibrates ==
    [][/\ C5_ResetStep => init_step' = 0
       /\ C20_SaveReturns =>
             /\ init_step' = 4
             /\ ~isCalibrating'
             /\ saved'.init_step = 4
             /\ CalOf([i \in 0..1 |->
                         [ az_scale |-> IF i = 0 THEN store'.m0_azscale
                                        ELSE store'.m1_azscale,
                           el_scale |-> IF i = 0 THEN store'.m0_elscale
                                        ELSE store'.m1_elscale ]],
                      store'.best_az_motor, store'.init_step) = saved'
             /\ Len(last'.outcome) = 2
             /\ last'.outcome[1] # "rate_limited"
             /\ last'.outcome[1] = "seek" <=> C4_SettledTick
             /\ last'.outcome[1] = "seek" =>
                   /\ last'.cmds[1].motn = best_azmotor
                   /\ last'.cmds[1].req \in C20_HomeRequests
       /\ C20_SaveRefused =>
             /\ CalOf(motor', best_azmotor', init_step')
                  = CalOf(motor, best_azmotor, init_step)
             /\ last'.cmds = << >>]_vars

\* G_Save has returned after a calibration that it restarted, and has
\* sought the home position
C20_Witness ==
    /\ last.op = "G_Save"
    /\ pc = "idle"
    /\ last.outcome = << "seek", "rate_limited" >>
    /\ bootStore = CalibratedStore
    /\ saved # NoCal
    /\ init_step = 4

\* an iteration of the loop of G_Save that got past the rate gate and
\* refreshed the sensor, after which the loop test is made again
C21_LoopTick ==
    pc = "save_loop" /\ pc' = "save_loop" /\ last'.reads = 1

\* the fields the loop of G_Save and the calls it makes decide on, the time
\* of the last update apart
C21_LoopState ==
    << store, nv, motor, init_step, best_azmotor, prevfast_az, prevfast_el,
       prevstop_az, prevstop_el, isCalibrating >>

\* C21: every public operation does a bounded amount of work.  A call of
\* moveToAzEl refreshes the sensor at most once and runs at most one
\* calibration step or seek; and the loop of G_Save ends whatever the sensor
\* does: no iteration that read the sensor hands the loop the very state it
\* started from, which the same reading would then repeat without end.
C21_SaveLoopBounded ==
    [][/\ (last'.op = "moveToAzEl" =>
             /\ last'.reads <= 1
             /\ Len(last'.outcome) = 1)
       /\ (C21_LoopTick => C21_LoopState' # C21_LoopState)]_vars

\* the calibration record the controller holds in memory: both motors'
\* limits, the four scales, the azimuth axis index and the step
C22_InMemory ==
    [ magic |-> MAGIC,
      mot0min |-> motor[0].min, mot0max |-> motor[0].max,
      mot1min |-> motor[1].min, mot1max |-> motor[1].max,
      m0_azscale |-> motor[0].az_scale, m0_elscale |-> motor[0].el_scale,
      m1_azscale |-> motor[1].az_scale, m1_elscale |-> motor[1].el_scale,
      best_az_motor |-> best_azmotor, init_step |-> init_step ]

\* C22: an edit of a motor's min or max limit with the actuator present
\* writes the full calibration record back: right after it the persisted
\* record equals the record in memory (limits, scales, axis index, step).
C22_LimitEditPersistsAll ==
    [][(last'.op = "G_MotLimit" /\ gimbal_found) =>
         /\ last'.writes = 1
         /\ store' = C22_InMemory']_vars

\* a motor is flagged at a limit
C23_AtLimit == \E i \in 0..1 : motor[i].atmin \/ motor[i].atmax

C23_LimitStatuses ==
    { "Servo 1 at Min!", "Servo 1 at Max!", "Servo 2 at Min!",
      "Servo 2 at Max!" }

\* C23: the status reported is chosen by strict priority: "Not found" when
\* the actuator is absent; otherwise "Gimbal fault" whenever the fault
\* signal is raised, whatever the limit flags and the step; otherwise an
\* at-limit status if a motor is flagged; otherwise "Uncalibrated" if the
\* step is below 4; and "Ok" only when none of these holds.
C23_StatusPriority ==
    last.op = "sendNewValues" =>
       LET status == last.outcome[1]
           fault == probe[1]
       IN  /\ ~gimbal_found => status = "Not found!"
           /\ (gimbal_found /\ fault) => status = "Gimbal fault!"
           /\ (gimbal_found /\ ~fault /\ C23_AtLimit) =>
                 status \in C23_LimitStatuses
           /\ (gimbal_found /\ ~fault /\ ~C23_AtLimit /\ init_step < 4) =>
                 status = "Uncalibrated!"
           /\ status = "Ok+" <=>
                 (gimbal_found /\ ~fault /\ ~C23_AtLimit /\ init_step >= 4)

\* a fault reported while a motor is at a limit and nothing is calibrated
C23_Witness ==
    /\ last.op = "sendNewValues"
    /\ last.outcome = << "Gimbal fault!" >>
    /\ gimbal_found
    /\ motor[0].atmin
    /\ init_step < 4

\* the pointing errors of the idealised gimbal, in tenths of a degree
C24_AzError == Abs(azDist(PlantAz, PlantTarget.az))
C24_ElError == Abs(PlantTarget.el - PlantEl)

\* what one microsecond of pulse is worth on either axis, in tenths of a
\* degree, rounded up
C24_PulseStep == 10000 \div Abs(PlantAzScale) + 1

\* a seek that found both motors commanded before and clear of their limits
\* and left them clear of their limits
C24_FreeSeek ==
    /\ C14_SeekTick
    /\ commanded = {0, 1}
    /\ \A i \in 0..1 :
         /\ ~motor[i].atmin /\ ~motor[i].atmax
         /\ ~motor'[i].atmin /\ ~motor'[i].atmax

\* C24: with a fixed reachable target and an idealised gimbal the closed
\* loop converges: a seek made with the reading at the target leaves the
\* motors where they are, and every other seek, made with the right scale
\* or a wrong one, reduces the pointing error on each axis or leaves it
\* within what one microsecond of pulse is worth.
C24_SeekConverges ==
    [][C24_FreeSeek =>
         /\ (C24_AzError = 0 /\ C24_ElError = 0) =>
               \A i \in 0..1 : motor'[i].pos = motor[i].pos
         /\ C24_AzError' < C24_AzError \/ C24_AzError' <= C24_PulseStep
         /\ C24_ElError' < C24_ElError \/ C24_ElError' <= C24_PulseStep]_vars

\* a call of moveToAzEl that passed the rate gate with an in-domain reading
C25_ControlTick ==
    /\ OneCall
    /\ last'.op = "moveToAzEl"
    /\ last'.outcome[1] \notin { "rate_limited", "rejected" }

\* the first such call since construction: none has left its reading yet
C25_FirstTick == C25_ControlTick /\ prevfast_el = SENTINEL

\* calibration step 0 ran: both motors were sent near their lower limits
C25_StepZeroRan ==
    /\ last'.outcome = << "calibrate" >>
    /\ init_step' = 1
    /\ isCalibrating'
    /\ Len(last'.cmds) = (IF gimbal_found THEN 2 ELSE 0)

\* the first control tick after a construction that found no valid
\* calibration runs calibration step 0 and leaves the controller calibrating
C25_FirstTickStarts ==
    [][(C25_FirstTick /\ init_step = 0) => C25_StepZeroRan]_vars

\* the reading of the tick is within MAX_SETTLE of the reading the previous
\* control tick left
C25_Stable ==
    /\ Abs(azDist(prevfast_az, az_sensor')) < MAX_SETTLE
    /\ Abs(el_sensor' - prevfast_el) < MAX_SETTLE

\* C25: after a construction that found no valid calibration (step 0) the
\* first control tick only records its reading: it runs no calibration step
\* and commands no motor.  Calibration starts on the first control tick
\* whose reading is within MAX_SETTLE of the previous control tick's: that
\* tick runs step 0 and leaves the controller calibrating.
C25_FirstSettledTickStarts ==
    [][(C25_ControlTick /\ init_step = 0) =>
         /\ C25_FirstTick =>
               /\ last'.outcome = << "unsettled" >>
               /\ last'.cmds = << >>
               /\ init_step' = 0
               /\ ~isCalibrating'
               /\ prevfast_az' = az_sensor' /\ prevfast_el' = el_sensor'
         /\ C25_Stable => C25_StepZeroRan
         /\ ~C25_Stable => init_step' = 0]_vars

\* step 0 has run on the second tick after a power-up on an EEPROM that was
\* never written
C25_Witness ==
    /\ bootStore = FreshStore
    /\ last.outcome = << "calibrate" >>
    /\ init_step = 1
    /\ isCalibrating
    /\ now = SETUP_DELAY + UPD_PERIOD + 600

\* the operation just done ran a calibration step
C26_StepRan == \E k \in DOMAIN last'.outcome : last'.outcome[k] = "calibrate"

\* C26: isCalibrating is true exactly while a calibration sequence is in
\* progress: it is false at construction, a calibration step 0, 1 or 2
\* leaves it true, step 3 leaves it false with the step at 4, nothing but a
\* construction changes it otherwise, and in every state isCalibrating
\* implies step < 4.
C26_FlagFollowsSequence ==
    /\ (last.op = "Gimbal" => ~isCalibrating)
    /\ [][/\ isCalibrating' => init_step' < N_INIT_STEPS
          /\ last'.op = "Gimbal" => ~isCalibrating'
          /\ (C26_StepRan /\ OneCall /\ init_step < N_INIT_STEPS - 1) =>
                (isCalibrating' /\ init_step' = init_step + 1)
          /\ (C26_StepRan /\ OneCall /\ init_step = N_INIT_STEPS - 1) =>
                (~isCalibrating' /\ init_step' = N_INIT_STEPS)
          /\ (~C26_StepRan /\ last'.op # "Gimbal") =>
                isCalibrating' = isCalibrating]_vars

\* the last step of a sequence run by control ticks has cleared the flag
C26_Witness ==
    /\ last.op = "moveToAzEl"
    /\ last.outcome = << "calibrate" >>
    /\ init_step = N_INIT_STEPS
    /\ ~isCalibrating
    /\ saved.init_step = N_INIT_STEPS

\* C27: the main loop never blocks a calibration it started: in every state
\* a further call of moveToAzEl can occur, made by loop() through
\* easycomm_process when the next command arrives, or by a Save that is in
\* progress, so that a calibration begun by a command can go on to its end.
C27_LoopStaysOpen == pc = "idle" => LoopServes

\* the operator has just entered a negative position for a motor: the
\* request handed to setMotorPosition is the entry converted to uint16_t
C28_NegativeEntry ==
    /\ last'.op = "G_MotPos"
    /\ Len(last'.cmds) = 1
    /\ \E v \in PosValues : v < 0 /\ last'.cmds[1].req = U16(v)

\* C28: a motor request below 0 is clamped to the nearer limit: it ends
\* with the motor at its minimum pulse and flagged atMin, never at its
\* maximum through the wrap-around of the conversion to 16 bits.
C28_NegativeRequestToMin ==
    [][C28_NegativeEntry =>
         LET mip == motor'[last'.cmds[1].motn]
         IN  /\ mip.pos = mip.min
             /\ mip.atmin
             /\ ~mip.atmax]_vars

\* C29: the rate gate is right across the rollover of the millisecond
\* counter: a call of moveToAzEl returns at the gate if and only if less
\* than UPD_PERIOD ms have truly passed since the last call that passed it,
\* whatever the value of the counter.
C29_GateAcrossRollover ==
    [][(OneCall /\ last'.op = "moveToAzEl") =>
         (last'.outcome = << "rate_limited" >> <=> C10_TooSoon)]_vars

\* req is pos + err * scale converted to an unsigned 16-bit number of us, err
\* in tenths of a degree and scale in thousandths of a us per degree; a sum
\* that is not finite or not within 0..65535 has no defined conversion
C30_Meets(req, pos, err, scale) ==
    (/\ IsFinite(scale)
     /\ pos * 10000 + err * scale >= 0
     /\ pos * 10000 + err * scale <= 65535 * 10000) =>
        Abs(req * 10000 - (pos * 10000 + err * scale)) < 10000

\* C30: on a settled tracking tick with the azimuth motor not flagged at a
\* limit, seek-target commands the azimuth motor to lastPulse +
\* azDist(currentAz, targetAz) * azScale and then the other motor to
\* lastPulse + (targetEl - currentEl) * elScale, whether or not that motor
\* is flagged atMin or atMax.
C30_SeekCommands ==
    [][(/\ C14_SeekTick
        /\ ~motor[best_azmotor].atmin
        /\ ~motor[best_azmotor].atmax) =>
         LET az == best_azmotor
             el == 1 - best_azmotor
             cmds == last'.cmds
         IN  /\ Len(cmds) = 2
             /\ cmds[1].motn = az
             /\ cmds[2].motn = el
             /\ \E t \in TrackTargets :
                  /\ C30_Meets(cmds[1].req, motor[az].pos,
                               azDist(az_sensor', t.az), motor'[az].az_scale)
                  /\ C30_Meets(cmds[2].req, motor[el].pos,
                               t.el - el_sensor', motor'[el].el_scale)]_vars

\* a seek has asked the elevation motor, which was at its upper limit, to go
\* on beyond it
C30_Witness ==
    /\ last.outcome = << "seek" >>
    /\ Len(last.cmds) = 2
    /\ LET mip == motor[1 - best_azmotor]
       IN  /\ mip.atmax
           /\ mip.pos = mip.max
           /\ mip.del_pos = 0
           /\ last.cmds[2].req > mip.max
           /\ IsFinite(mip.el_scale)

\* a tick that ran calibration step 0, 1 or 2
C31_StepTick ==
    /\ OneCall
    /\ last'.outcome = << "calibrate" >>
    /\ init_step \in 0..2

\* C31: for limits with minPulse <= maxPulse both endpoints of each
\* calibration excursion, the start point of step 0 and the end points of
\* steps 1 and 2, lie within [minPulse, maxPulse]: no command of the steps
\* 0..2 is altered by clamping.
C31_ExcursionsWithinLimits ==
    [][(C31_StepTick /\ \A i \in 0..1 : motor[i].min <= motor[i].max) =>
         \A k \in DOMAIN last'.cmds :
            LET c == last'.cmds[k]
                mip == motor[c.motn]
            IN  /\ mip.min <= c.req
                /\ c.req <= mip.max
                /\ motor'[c.motn].pos = c.req]_vars

\* the excursion of step 2 has been commanded over the full range of pulses
C31_Witness ==
    /\ last.outcome = << "calibrate" >>
    /\ init_step = 3
    /\ motor[1].min = 0
    /\ motor[1].max = 65535
    /\ Len(last.cmds) = 1
    /\ last.cmds[1].motn = 1
    /\ last.cmds[1].req > motor[1].min + Range(motor[1]) \div 2

\* the motors commanded by the operation just done, in order
C32_Moved == [k \in DOMAIN last'.cmds |-> last'.cmds[k].motn]

\* lastPulse, lastDelta and the limit flags of motor i are as they were
C32_Untouched(i) ==
    /\ motor'[i].pos = motor[i].pos
    /\ motor'[i].del_pos = motor[i].del_pos
    /\ motor'[i].atmin = motor[i].atmin
    /\ motor'[i].atmax = motor[i].atmax

\* C32: each calibration step moves only its designated motors: step 0
\* commands both motors, step 1 commands motor 0 only and leaves lastPulse,
\* lastDelta and the flags of motor 1 unchanged, step 2 commands motor 1
\* only and leaves those of motor 0 unchanged, and step 3 commands no motor.
C32_StepsMoveTheirMotors ==
    [][(OneCall /\ last'.outcome = << "calibrate" >> /\ gimbal_found) =>
         /\ init_step = 0 => C32_Moved = << 0, 1 >>
         /\ init_step = 1 => (C32_Moved = << 0 >> /\ C32_Untouched(1))
         /\ init_step = 2 => (C32_Moved = << 1 >> /\ C32_Untouched(0))
         /\ init_step = 3 =>
               (C32_Moved = << >> /\ C32_Untouched(0) /\ C32_Untouched(1))]_vars

\* step 3 has run and the motors are where steps 1 and 2 left them
C32_Witness ==
    /\ last.outcome = << "calibrate" >>
    /\ last.cmds = << >>
    /\ init_step = 4
    /\ gimbal_found
    /\ motor[0].del_pos > 0
    /\ motor[1].del_pos > 0
    /\ motor[0].pos = 1666

\* the scales of motor i are as they were
C33_ScalesKept(i) ==
    /\ motor'[i].az_scale = motor[i].az_scale
    /\ motor'[i].el_scale = motor[i].el_scale

\* the scales of motor i are the pulse width it was last moved by divided by
\* the change from the last stable reading to the reading of this tick
C33_ScalesFromMove(i) ==
    /\ motor'[i].az_scale =
          FDiv(motor[i].del_pos * 1000, azDist(prevstop_az, az_sensor'))
    /\ motor'[i].el_scale =
          FDiv(motor[i].del_pos * 1000, el_sensor' - prevstop_el)

\* C33: calibration step 2 sets the scales of motor 0 to the pulse units
\* motor 0 was actually moved by in step 1 divided by the angular change
\* between the stable reading of the tick that commanded the move and the
\* settled reading of this tick (azDist for the azimuth, the difference for
\* the elevation); step 3 does the same for motor 1 with the move of step 2;
\* neither step changes a scale of the other motor.
C33_ScalesFromActualMove ==
    [][(OneCall /\ last'.outcome = << "calibrate" >> /\ gimbal_found) =>
         /\ init_step = 2 => (C33_ScalesFromMove(0) /\ C33_ScalesKept(1))
         /\ init_step = 3 => (C33_ScalesFromMove(1) /\ C33_ScalesKept(0))]_vars

\* C34: while the actuator hardware is absent (every motor command does
\* nothing), no call of moveToAzEl turns an uncalibrated controller into a
\* calibrated one and none writes to the persistent store.
C34_NoCalibrationWithoutActuator ==
    [][(~gimbal_found /\ last'.op = "moveToAzEl") =>
         /\ init_step' >= N_INIT_STEPS => init_step >= N_INIT_STEPS
         /\ last'.writes = 0
         /\ store' = store]_vars

\* a decimal number: an optional sign, then digits with at most one point
\* among them and at least one digit
C35_Numeric(f) ==
    LET body == IF f # << >> /\ Head(f) \in { "-", "+" } THEN Tail(f) ELSE f
        IsDigit(c) == \E k \in 1..10 : Digits[k] = c
    IN  /\ \E i \in 1..Len(body) : IsDigit(body[i])
        /\ \A i \in 1..Len(body) : IsDigit(body[i]) \/ body[i] = "."
        /\ Cardinality({ i \in 1..Len(body) : body[i] = "." }) <= 1

\* the line carries a numeric azimuth after AZ and, as its second word, EL
\* followed by a numeric elevation
C35_BothFields ==
    LET first == strtok(probe.buffer)
        second == strtok(first.rest)
    IN  /\ C35_Numeric(Skip2(first.token))
        /\ ~second.null
        /\ CharAt(second.token, 1) = "E"
        /\ CharAt(second.token, 2) = "L"
        /\ C35_Numeric(Skip2(second.token))

\* C35: readAzEl returns true, and the front end then calls moveToAzEl,
\* only when the command line carries both a valid numeric azimuth after AZ
\* and a valid numeric elevation after EL; when either field is missing or
\* is not numeric, readAzEl returns false and no move is requested.
C35_MoveOnlyOnBothFields ==
    (probe.done /\ probe.parsed) =>
        /\ probe.ret => C35_BothFields
        /\ probe.moved => probe.ret
        /\ ~C35_BothFields => (~probe.ret /\ ~probe.moved)

\* the scale new replaces the scale old without changing its sign, is a
\* number other than zero and differs from old by less than a tenth of the
\* magnitude of old
C36_Close(new, old) ==
    /\ IsFinite(old)
    /\ IsFinite(new)
    /\ new # 0
    /\ (new > 0) = (old > 0)
    /\ Abs(new - old) * 10 < Abs(old)

\* C36: online recalibration never changes the sign of a scale and never
\* sets it to zero or to an undefined value: every scale a tracking tick
\* changes differs from the scale it replaces by less than 10% of that
\* scale's magnitude.
C36_AdoptedScaleIsClose ==
    [][C14_SeekTick =>
         \A i \in 0..1 :
            /\ motor'[i].az_scale # motor[i].az_scale =>
                 C36_Close(motor'[i].az_scale, motor[i].az_scale)
            /\ motor'[i].el_scale # motor[i].el_scale =>
                 C36_Close(motor'[i].el_scale, motor[i].el_scale)]_vars

\* a tracking tick has replaced the azimuth scale of the azimuth motor by a
\* smaller one
C36_Witness ==
    /\ last.outcome = << "seek" >>
    /\ bootStore = CalibratedStore
    /\ motor[0].az_scale > 0
    /\ motor[0].az_scale < bootStore.m0_azscale

\* the tick is a tracking tick that found the azimuth motor flagged at a
\* limit and commanded it
C38_SwungAway ==
    /\ C14_SeekTick
    /\ gimbal_found
    /\ motor[best_azmotor].atmin \/ motor[best_azmotor].atmax
    /\ motor[best_azmotor].min < motor[best_azmotor].max

\* C38: after a tracking tick that found the azimuth motor flagged at a
\* limit (atmin or atmax) and swung it away, that motor is flagged at
\* neither limit, whatever limits min < max are configured.
C38_SwingClearsFlags ==
    [][C38_SwungAway =>
         (~motor'[best_azmotor].atmin /\ ~motor'[best_azmotor].atmax)]_vars

\* the tick is a tracking tick whose settled reading is the target
C39_OnTarget ==
    /\ C14_SeekTick
    /\ az_sensor' = probe.target.az
    /\ el_sensor' = probe.target.el

\* C39: when the settled sensor reading equals the target (no azimuth error
\* and no elevation error), a tracking tick leaves the pos of both motors
\* as it was.
C39_OnTargetKeepsPos ==
    [][C39_OnTarget => \A i \in 0..1 : motor'[i].pos = motor[i].pos]_vars

\* C37: online recalibration changes a scale only on the basis of a previous
\* stable reading that was a real sample: a tracking tick that finds the
\* last stable reading still at its construction value (-1000) changes no
\* scale, whatever position entries preceded it.
C37_NoRecalibrationFromSentinel ==
    [][(C14_SeekTick /\ prevstop_az = SENTINEL /\ prevstop_el = SENTINEL) =>
         \A i \in 0..1 : C33_ScalesKept(i)]_vars

\* C40: in every reachable state the step counter init_step is in 0..4, so
\* calibrated() holds exactly when init_step is 4 and calibrate, which is
\* entered only when calibrated() is false and adds one to the counter, never
\* takes its default branch (which would leave the counter above 4): for
\* every stored record and every sequence of ticks, Saves, restarts and
\* operator entries.
C40_StepInRange ==
    /\ init_step \in 0..N_INIT_STEPS
    /\ calibrated(Self) <=> init_step = N_INIT_STEPS

\* the last step of a calibration made after a record with step 5 was found
C40_Witness ==
    /\ bootStore = LateStepStore
    /\ last.outcome = << "calibrate" >>
    /\ init_step = N_INIT_STEPS


====
